---- MODULE Spec2Model ----
(***************************************************************************)
(* A model of the feed generator: the Jetstream ingester with its batched   *)
(* flush and resumable cursor, the ranking handler's filter / diversity /   *)
(* pagination stage, the feed request's served-log write, and the batch     *)
(* pipeline trigger of the server.                                          *)
(***************************************************************************)
EXTENDS Integers, Sequences, FiniteSets, TLC

(***************************************************************************)
(* Bounds of the model.                                                     *)
(***************************************************************************)
\* Number of events the upstream stream holds when it is not scripted.
MaxEvents == 2
\* Number of faults: disconnects, crashes and store failures together.
MaxFaults == 1
\* Number of feed requests.
MaxRequests == 2
\* Number of seen rows a post of the pool has for the requester.
MaxSeen == 1
\* Number of times the server starts the batch pipeline.
MaxRuns == 3
\* Last minute of the server's clock.
MaxClock == 25

\* Number of updates of what the server learns about the requester.
MaxUpdates == 3
\* Last day of the calendar.
MaxDay == 10

\* Number of calls of buildUserGraph for the user.
MaxBuilds == 2
\* Last hour of the clock of the graph builds.
MaxHour == 48

None == "none"

(***************************************************************************)
(* The ingester (JetstreamSubscription).                                    *)
(***************************************************************************)
VARIABLES
    stream,                  \* the upstream's event log; event i has time_us = 100 * i
    sub,                     \* the WebSocket: "closed" or "open"
    pos,                     \* index in stream of the next event the connection delivers
    awaiting,                \* time_us of the handlers suspended at an await of handleEvent
    cursor,                  \* this.cursor (0: undefined)
    pending,                 \* the six pending batches
    isFlushing,              \* this.isFlushing
    flushPc,                 \* where flushBatch is: "idle", "tx", "committed"
    toFlush,                 \* the batches taken by the flush in progress
    post,                    \* table post: uri -> row or NoRow
    graph_interaction,       \* table graph_interaction: its rows, in insertion order
    dbCursor,                \* table sub_state: the cursor of this service (0: no row)
    trackedInteractionDids,  \* this.trackedInteractionDids
    faults,                  \* per kind, the faults so far
    script,                  \* the events a scripted upstream sends (<<>>: any events)
    connStart,               \* scripted: index the connection started its playback from
    flushStartPos,           \* scripted: value of pos when the last flush took its batches
    cleanCrash,              \* scripted: TRUE once the process crashed with all flushed
    \* The feed server: the requester's snapshot and the feed requests.
    candidates,              \* the posts the ranking handler scores: uri -> row
    user_seen_post,          \* table user_seen_post of the requester: uri -> number of rows
    user_served_post,        \* table user_served_post of the requester: uri -> number of rows
    servedInserts,           \* inserts into user_served_post issued and not yet completed
    response,                \* what the last getFeedSkeleton request returned
    requests,                \* number of getFeedSkeleton requests so far
    \* The feed server: the batch pipeline.
    isPipelineRunning,       \* this.isPipelineRunning
    lastPipelineRunAt,       \* this.lastPipelineRunAt, in minutes
    now,                     \* Date.now(), in minutes
    children,                \* the pipeline child processes spawned, in order: their status
    lastTrigger,             \* what the last runBatchPipeline call did
    \* The feed server: the semantic batches and what is learnt about the requester.
    user_candidate_batch,    \* the requester's rows within the TTL, newest per uri: uri -> row
    triggerCalls,            \* the arguments ctx.triggerBatchPipeline was called with
    user_author_fatigue,     \* table user_author_fatigue of the requester: author -> row
    taste_reputation,        \* table taste_reputation of the requester: similar user -> row
    user_keyword,            \* table user_keyword of the requester: keyword -> score
    today,                   \* Date.now(), in days
    updates,                 \* number of updates so far
    keywordJob,              \* where the daily keywords job is: "idle", "extracting"
    scoredPosts,             \* the scored replies of one thread: uri -> post row and score
    mutualDids,              \* the followees of the requester that follow back
    rankResult,              \* what the handler returned in batchMode, once it has run
    whitelist,               \* ctx.cfg.whitelist: the DIDs of FEEDGEN_WHITELIST
    graph_meta,              \* updatedAt of the row graph_last_update_<did>, in hours
    graph_follow,            \* table graph_follow: <<follower, followee>>
    builds,                  \* the calls of buildUserGraph for the user, in order
    hour,                    \* Date.now(), in hours
    stopPc,                  \* where stop() of the ingester is: "running", "flushing", "stopped"
    stopPos,                 \* the position in the stream when stop() was called
    sends,                   \* the sendInteractions requests answered so far
    feedbackEntries,         \* the explicit-feedback entries of those requests, in order
    backgroundTasks,         \* the processBackgroundInteractions calls that have not ended
    feedbackCalls,           \* the calls of handleInteractionFeedback, in order
    flushErrors,             \* the SQLITE_BUSY errors flushBatch caught, and those it let out
    insertCall               \* the insert of a candidate batch by the pipeline: its retry loop

ingestVars == <<stream, sub, pos, awaiting, cursor, pending, isFlushing, flushPc,
                toFlush, post, graph_interaction, dbCursor, trackedInteractionDids,
                faults, script, connStart, flushStartPos, cleanCrash>>

feedVars == <<candidates, user_seen_post, user_served_post, servedInserts, response,
              requests>>

pipelineVars == <<isPipelineRunning, lastPipelineRunAt, now, children, lastTrigger>>

serveVars == <<user_candidate_batch, triggerCalls>>

learnVars == <<user_author_fatigue, taste_reputation, user_keyword, today, updates,
               keywordJob>>

replyVars == <<scoredPosts, mutualDids, rankResult>>

graphVars == <<graph_meta, graph_follow, builds, hour>>

\* The state no serve or learning step touches.
\* The shutdown of the ingester.
opsVars == <<stopPc, stopPos>>

\* What the writers do when the store is locked.
retryVars == <<flushErrors, insertCall>>

sideVars == <<replyVars, whitelist, graphVars, opsVars, retryVars>>

\* The interaction reports of the client.
interactVars == <<sends, feedbackEntries, backgroundTasks, feedbackCalls>>

\* The state no step of a graph build touches.
notGraphVars == <<ingestVars, feedVars, pipelineVars, serveVars, learnVars, replyVars,
                  whitelist, opsVars, interactVars, retryVars>>

laterVars == <<serveVars, learnVars, sideVars, interactVars>>

vars == <<ingestVars, feedVars, pipelineVars, laterVars>>

\* Date.now() - lastPipelineRunAt < 10 * 60 * 1000: the cooldown, in minutes.
CooldownMinutes == 10

\* A cursor is the sequence of the parts that split('::') finds in its string; a
\* request or a response without cursor has the empty one.
NoCursor == <<>>

\* lastInteractionAt of an author the requester never interacted with: null.
Never == -1

NoResponse == [status |-> "none", limit |-> 0, cursorIn |-> NoCursor, read |-> <<>>,
               feed |-> <<>>, cursor |-> NoCursor]

\* The feed server when it has not been asked anything and knows no post.
FeedIdle ==
    /\ candidates = <<>>
    /\ user_seen_post = <<>>
    /\ user_served_post = <<>>
    /\ servedInserts = <<>>
    /\ response = NoResponse
    /\ requests = 0

\* FEEDGEN_WHITELIST names the user of the feed.
Configured == whitelist = {"did:plc:u"}

\* The ingester was not asked to stop.
OpsIdle ==
    /\ stopPc = "running"
    /\ stopPos = 0

\* No write met a locked store; the pipeline has no batch to insert.
RetryIdle ==
    /\ flushErrors = [busy |-> 0, surfaced |-> 0]
    /\ insertCall = [pc |-> "idle", retries |-> 0, attempts |-> 0, sleeps |-> 0]

\* No interaction was reported.
InteractIdle ==
    /\ sends = 0
    /\ feedbackEntries = <<>>
    /\ backgroundTasks = <<>>
    /\ feedbackCalls = <<>>

\* No graph was built and no build was asked for.
GraphIdle ==
    /\ graph_meta = Never
    /\ graph_follow = {}
    /\ builds = <<>>
    /\ hour = 0

\* No thread of replies to rank.
ReplyIdle ==
    /\ scoredPosts = <<>>
    /\ mutualDids = {}
    /\ rankResult = [done |-> FALSE, feed |-> <<>>]

\* No semantic batch, no trigger, nothing learnt.
LaterIdle ==
    /\ user_candidate_batch = <<>>
    /\ triggerCalls = <<>>
    /\ user_author_fatigue = <<>>
    /\ taste_reputation = <<>>
    /\ user_keyword = <<>>
    /\ today = 0
    /\ updates = 0
    /\ keywordJob = "idle"
    /\ ReplyIdle

\* The FeedGenerator after its constructor: isPipelineRunning = false,
\* lastPipelineRunAt = 0; the clock is past the cooldown.
PipelineIdle ==
    /\ isPipelineRunning = FALSE
    /\ lastPipelineRunAt = 0
    /\ now = CooldownMinutes
    /\ children = <<>>
    /\ lastTrigger = "none"

OwnDid == "did:plc:u"      \* the whitelisted user: in config.trackedDids
OtherDid == "did:plc:x"    \* an account nobody tracks
P1 == "at://did:plc:x/app.bsky.feed.post/1"
P2 == "at://did:plc:u/app.bsky.feed.post/2"
PostUris == {P1, P2}

\* config.trackedDids: publisherDid and the whitelist.
TrackedDids == {OwnDid}

\* The events the upstream can send.
EvCreateP1 == [collection |-> "post", operation |-> "create", did |-> OtherDid,
               uri |-> P1, subject |-> None, replyParent |-> None]
EvReplyP2 == [collection |-> "post", operation |-> "create", did |-> OwnDid,
              uri |-> P2, subject |-> None, replyParent |-> P1]
EvDeleteP1 == [collection |-> "post", operation |-> "delete", did |-> OtherDid,
               uri |-> P1, subject |-> None, replyParent |-> None]
EvLikeOwn == [collection |-> "like", operation |-> "create", did |-> OwnDid,
              uri |-> "at://did:plc:u/app.bsky.feed.like/3", subject |-> P1,
              replyParent |-> None]
EvLikeOther == [collection |-> "like", operation |-> "create", did |-> OtherDid,
                uri |-> "at://did:plc:x/app.bsky.feed.like/4", subject |-> P1,
                replyParent |-> None]
EvRepostOwn == [collection |-> "repost", operation |-> "create", did |-> OwnDid,
                uri |-> "at://did:plc:u/app.bsky.feed.repost/5", subject |-> P1,
                replyParent |-> None]
\* A commit that queues nothing (an update of a post): only its time_us counts.
EvBarrier == [collection |-> "post", operation |-> "update", did |-> OtherDid,
              uri |-> P1, subject |-> None, replyParent |-> None]

\* What an unscripted upstream draws its events from.
Catalogue == {EvCreateP1, EvReplyP2, EvDeleteP1, EvLikeOwn, EvRepostOwn}

EventTime(i) == 100 * i

FaultKinds == {"disconnect", "crash", "tx", "cursor"}

ZeroCounts == [u \in PostUris |-> 0]

EmptyBatch == [posts |-> <<>>, deletes |-> {}, likes |-> ZeroCounts,
               reposts |-> ZeroCounts, replyCounts |-> ZeroCounts,
               interactions |-> <<>>]

\* The row handleEvent queues for table graph_interaction.
InteractionRow(e, type, weight) ==
    [actor |-> e.did, target |-> e.subject, type |-> type, weight |-> weight,
     interactionUri |-> e.uri]

\* handleEvent up to its first await: what the event adds to the pending batches.
\* The branch for replies (collection post, create, record.reply) comes after the
\* branch for collection post and is never taken.
Enqueue(b, e, tracked) ==
    IF e.collection = "post"
    THEN IF e.operation = "create"
         THEN [b EXCEPT !.posts = Append(@, [uri |-> e.uri, author |-> e.did,
                                             replyParent |-> e.replyParent]),
                        !.replyCounts = IF e.replyParent # None
                                        THEN [@ EXCEPT ![e.replyParent] = @ + 1]
                                        ELSE @]
         ELSE IF e.operation = "delete"
              THEN [b EXCEPT !.deletes = @ \cup {e.uri}]
              ELSE b
    ELSE IF e.collection = "like" /\ e.operation = "create" /\ e.subject # None
    THEN [b EXCEPT !.likes = [@ EXCEPT ![e.subject] = @ + 1],
                   !.interactions = IF e.did \in tracked
                                    THEN Append(@, InteractionRow(e, "like", 1))
                                    ELSE @]
    ELSE IF e.collection = "repost" /\ e.operation = "create" /\ e.subject # None
    THEN [b EXCEPT !.reposts = [@ EXCEPT ![e.subject] = @ + 1],
                   !.interactions = IF e.did \in tracked
                                    THEN Append(@, InteractionRow(e, "repost", 2))
                                    ELSE @]
    ELSE b

\* Whether handleEvent awaits the taste and fatigue engines before it sets the cursor.
Awaits(e) ==
    /\ e.collection \in {"like", "repost"}
    /\ e.operation = "create"
    /\ e.subject # None
    /\ e.did \in TrackedDids

\* A row of table post (its counters), and the absence of a row.
NewRow == [exists |-> TRUE, likeCount |-> 0, repostCount |-> 0, replyCount |-> 0]
NoRow == [exists |-> FALSE, likeCount |-> 0, repostCount |-> 0, replyCount |-> 0]

\* insertInto('post') ... onConflict doNothing, the rows in order.
RECURSIVE InsertPosts(_, _)
InsertPosts(tbl, rows) ==
    IF rows = <<>> THEN tbl
    ELSE InsertPosts(IF ~tbl[Head(rows).uri].exists
                     THEN [tbl EXCEPT ![Head(rows).uri] = NewRow]
                     ELSE tbl,
                     Tail(rows))

DeletePosts(tbl, uris) == [u \in PostUris |-> IF u \in uris THEN NoRow ELSE tbl[u]]

\* The per-URI sums of the three maps, applied with col = col + n. The order the
\* code sorts the updates in does not change the result.
UpdateCounters(tbl, b) ==
    [u \in PostUris |->
        IF ~tbl[u].exists THEN NoRow
        ELSE [exists |-> TRUE,
              likeCount |-> tbl[u].likeCount + b.likes[u],
              repostCount |-> tbl[u].repostCount + b.reposts[u],
              replyCount |-> tbl[u].replyCount + b.replyCounts[u]]]

InteractionKey(r) == <<r.actor, r.target, r.type>>

HasKey(rows, k) == \E i \in DOMAIN rows : InteractionKey(rows[i]) = k

\* A plain insert: every row is added.
RECURSIVE InsertInteractionsNoConflict(_, _)
InsertInteractionsNoConflict(tbl, rows) ==
    IF rows = <<>> THEN tbl
    ELSE InsertInteractionsNoConflict(Append(tbl, Head(rows)), Tail(rows))

\* insertInto('graph_interaction') ... onConflict doNothing under the unique index
\* graph_interaction_unique_idx on (actor, target, type).
RECURSIVE InsertInteractions(_, _)
InsertInteractions(tbl, rows) ==
    IF rows = <<>> THEN tbl
    ELSE InsertInteractions(IF HasKey(tbl, InteractionKey(Head(rows)))
                            THEN tbl
                            ELSE Append(tbl, Head(rows)),
                            Tail(rows))

\* The counter updates run before the post inserts.
FlushPostsCountersFirst(tbl, b) ==
    DeletePosts(InsertPosts(UpdateCounters(tbl, b), b.posts), b.deletes)

\* The flush transaction on table post: inserts, deletes, counter updates.
FlushPosts(tbl, b) ==
    UpdateCounters(DeletePosts(InsertPosts(tbl, b.posts), b.deletes), b)

\* The catch block with the likes forgotten.
RequeueWithoutLikes(p, f) ==
    [posts |-> p.posts \o f.posts,
     deletes |-> p.deletes \cup f.deletes,
     likes |-> p.likes,
     reposts |-> [u \in PostUris |-> p.reposts[u] + f.reposts[u]],
     replyCounts |-> [u \in PostUris |-> p.replyCounts[u] + f.replyCounts[u]],
     interactions |-> p.interactions \o f.interactions]

\* The catch block of flushBatch: what was taken goes back to the pending batches.
Requeue(p, f) ==
    [posts |-> p.posts \o f.posts,
     deletes |-> p.deletes \cup f.deletes,
     likes |-> [u \in PostUris |-> p.likes[u] + f.likes[u]],
     reposts |-> [u \in PostUris |-> p.reposts[u] + f.reposts[u]],
     replyCounts |-> [u \in PostUris |-> p.replyCounts[u] + f.replyCounts[u]],
     interactions |-> p.interactions \o f.interactions]

\* The position the upstream starts its playback from for a requested cursor: the
\* first event at or after the cursor; without a cursor, the live tail.
ExactStart(c) ==
    IF c = 0 THEN Len(stream) + 1
    ELSE IF \E i \in 1..Len(stream) : EventTime(i) >= c
         THEN CHOOSE i \in 1..Len(stream) :
                  /\ EventTime(i) >= c
                  /\ \A j \in 1..(i - 1) : EventTime(j) < c
         ELSE Len(stream) + 1

\* Where playback may start: at the requested cursor; a scripted upstream may also
\* start earlier and repeat events.
PlaybackStarts(c) ==
    IF script = <<>> THEN {ExactStart(c)} ELSE 1..ExactStart(c)

\* The store with no post, no interaction and no cursor.
StoreEmpty ==
    /\ post = [u \in PostUris |-> NoRow]
    /\ graph_interaction = <<>>
    /\ dbCursor = 0

\* The ingester after its constructor, before run().
IngesterIdle ==
    /\ stream = <<>>
    /\ sub = "closed"
    /\ pos = 1
    /\ awaiting = {}
    /\ cursor = 0
    /\ pending = EmptyBatch
    /\ isFlushing = FALSE
    /\ flushPc = "idle"
    /\ toFlush = EmptyBatch
    /\ trackedInteractionDids = {}
    /\ faults = [k \in FaultKinds |-> 0]
    /\ script = <<>>
    /\ connStart = 1
    /\ flushStartPos = 0
    /\ cleanCrash = FALSE

IngestIdle == IngesterIdle /\ StoreEmpty

IngestInit ==
    /\ OpsIdle
    /\ RetryIdle
    /\ InteractIdle
    /\ GraphIdle
    /\ Configured
    /\ IngestIdle
    /\ FeedIdle
    /\ PipelineIdle
    /\ LaterIdle

\* Whether the fault budget allows one more fault.
MayFail == faults["disconnect"] + faults["crash"] + faults["tx"] + faults["cursor"] < MaxFaults

dbVars == <<post, graph_interaction, dbCursor>>
flushVars == <<isFlushing, flushPc, toFlush>>

\* run(): read the stored cursor, connect; the upstream plays back from there.
Run ==
    /\ sub = "closed"
    /\ cursor' = IF dbCursor # 0 THEN dbCursor ELSE cursor
    /\ sub' = "open"
    /\ \E p \in PlaybackStarts(cursor') :
          /\ pos' = p
          /\ connStart' = IF script # <<>> THEN p ELSE connStart
    /\ UNCHANGED <<stream, awaiting, pending, flushVars, dbVars,
                   trackedInteractionDids, faults, script, flushStartPos,
                   cleanCrash>>
    /\ UNCHANGED <<feedVars, pipelineVars, laterVars>>

\* The socket closes; the close handler schedules run().
Disconnect ==
    /\ sub = "open"
    /\ MayFail
    /\ faults' = [faults EXCEPT !["disconnect"] = @ + 1]
    /\ sub' = "closed"
    /\ UNCHANGED <<stream, pos, awaiting, cursor, pending, flushVars, dbVars,
                   trackedInteractionDids, script, connStart, flushStartPos,
                   cleanCrash>>
    /\ UNCHANGED <<feedVars, pipelineVars, laterVars>>

\* A message arrives: handleEvent runs to its end, or to its first await.
HandleEvent(e, t) ==
    /\ pending' = Enqueue(pending, e, trackedInteractionDids)
    /\ IF Awaits(e)
       THEN awaiting' = awaiting \cup {t} /\ cursor' = cursor
       ELSE awaiting' = awaiting /\ cursor' = t

\* The events the upstream may send as its i-th.
Upcoming(i) ==
    IF script = <<>>
    THEN IF i <= MaxEvents THEN Catalogue ELSE {}
    ELSE IF i <= Len(script) THEN {script[i]} ELSE {}

Deliver ==
    /\ sub = "open"
    /\ \/ /\ pos <= Len(stream)
          /\ HandleEvent(stream[pos], EventTime(pos))
          /\ stream' = stream
       \/ /\ pos = Len(stream) + 1
          /\ \E e \in Upcoming(pos) :
                /\ stream' = Append(stream, e)
                /\ HandleEvent(e, EventTime(pos))
    /\ pos' = pos + 1
    /\ UNCHANGED <<sub, flushVars, dbVars, trackedInteractionDids, faults, script,
                   connStart, flushStartPos, cleanCrash>>
    /\ UNCHANGED <<feedVars, pipelineVars, laterVars>>

\* A suspended handleEvent resumes after its awaits and sets this.cursor.
HandleEventResume ==
    /\ \E t \in awaiting :
          /\ awaiting' = awaiting \ {t}
          /\ cursor' = t
    /\ UNCHANGED <<stream, sub, pos, pending, flushVars, dbVars,
                   trackedInteractionDids, faults, script, connStart,
                   flushStartPos, cleanCrash>>
    /\ UNCHANGED <<feedVars, pipelineVars, laterVars>>

\* refreshTrackedDids of the ingester process: the whitelist, its follows, its twins.
RefreshTrackedDids ==
    /\ trackedInteractionDids # TrackedDids
    /\ trackedInteractionDids' = TrackedDids
    /\ UNCHANGED <<stream, sub, pos, awaiting, cursor, pending, flushVars, dbVars,
                   faults, script, connStart, flushStartPos, cleanCrash>>
    /\ UNCHANGED <<feedVars, pipelineVars, laterVars>>

\* flushBatch up to the transaction: take the pending batches and clear them.
FlushStart ==
    /\ ~isFlushing
    /\ pending # EmptyBatch
    /\ isFlushing' = TRUE
    /\ toFlush' = pending
    /\ pending' = EmptyBatch
    /\ flushPc' = "tx"
    /\ flushStartPos' = IF script # <<>> THEN pos ELSE flushStartPos
    /\ UNCHANGED <<stream, sub, pos, awaiting, cursor, dbVars,
                   trackedInteractionDids, faults, script, connStart, cleanCrash>>
    /\ UNCHANGED <<feedVars, pipelineVars, laterVars>>

\* The transaction commits.
FlushCommit ==
    /\ flushPc = "tx"
    /\ post' = FlushPosts(post, toFlush)
    /\ graph_interaction' = InsertInteractions(graph_interaction, toFlush.interactions)
    /\ flushPc' = "committed"
    /\ UNCHANGED <<stream, sub, pos, awaiting, cursor, pending, isFlushing, toFlush,
                   dbCursor, trackedInteractionDids, faults, script, connStart,
                   flushStartPos, cleanCrash>>
    /\ UNCHANGED <<feedVars, pipelineVars, laterVars>>

\* The transaction throws: the catch block and the finally block.
FlushFail ==
    /\ flushPc = "tx"
    /\ MayFail
    /\ faults' = [faults EXCEPT !["tx"] = @ + 1]
    /\ pending' = Requeue(pending, toFlush)
    /\ toFlush' = EmptyBatch
    /\ isFlushing' = FALSE
    /\ flushPc' = "idle"
    /\ UNCHANGED <<stream, sub, pos, awaiting, cursor, dbVars,
                   trackedInteractionDids, script, connStart, flushStartPos,
                   cleanCrash>>
    /\ UNCHANGED <<feedVars, pipelineVars, laterVars>>

\* The cursor write at a wrong place: while the transaction is still open.
UpdateCursorEarly ==
    /\ flushPc = "tx"
    /\ cursor # 0
    /\ dbCursor' = cursor
    /\ UNCHANGED <<stream, sub, pos, awaiting, cursor, pending, flushVars, post,
                   graph_interaction, trackedInteractionDids, faults, script,
                   connStart, flushStartPos, cleanCrash>>
    /\ UNCHANGED <<feedVars, pipelineVars, laterVars>>

\* After the commit: if (this.cursor) updateCursor(this.cursor), then finally.
UpdateCursor ==
    /\ flushPc = "committed"
    /\ dbCursor' = IF cursor # 0 THEN cursor ELSE dbCursor
    /\ toFlush' = EmptyBatch
    /\ isFlushing' = FALSE
    /\ flushPc' = "idle"
    /\ UNCHANGED <<stream, sub, pos, awaiting, cursor, pending, post,
                   graph_interaction, trackedInteractionDids, faults, script,
                   connStart, flushStartPos, cleanCrash>>
    /\ UNCHANGED <<feedVars, pipelineVars, laterVars>>

\* updateCursor throws after the commit: the same catch block runs.
UpdateCursorFail ==
    /\ flushPc = "committed"
    /\ cursor # 0
    /\ MayFail
    /\ faults' = [faults EXCEPT !["cursor"] = @ + 1]
    /\ pending' = Requeue(pending, toFlush)
    /\ toFlush' = EmptyBatch
    /\ isFlushing' = FALSE
    /\ flushPc' = "idle"
    /\ UNCHANGED <<stream, sub, pos, awaiting, cursor, dbVars,
                   trackedInteractionDids, script, connStart, flushStartPos,
                   cleanCrash>>
    /\ UNCHANGED <<feedVars, pipelineVars, laterVars>>

\* The process dies and is started again: the constructor's state, the store kept.
\* An open transaction is rolled back.
Crash ==
    /\ MayFail
    /\ faults' = [faults EXCEPT !["crash"] = @ + 1]
    /\ cleanCrash' = (/\ script # <<>>
                      /\ pending = EmptyBatch
                      /\ flushPc = "idle"
                      /\ awaiting = {}
                      /\ pos = Len(script) + 1)
    /\ sub' = "closed"
    /\ awaiting' = {}
    /\ cursor' = 0
    /\ pending' = EmptyBatch
    /\ isFlushing' = FALSE
    /\ flushPc' = "idle"
    /\ toFlush' = EmptyBatch
    /\ trackedInteractionDids' = {}
    /\ flushStartPos' = 0
    /\ UNCHANGED <<stream, pos, dbVars, script, connStart>>
    /\ UNCHANGED <<feedVars, pipelineVars, laterVars>>

IngestNext ==
    \/ Run
    \/ Disconnect
    \/ Deliver
    \/ HandleEventResume
    \/ RefreshTrackedDids
    \/ FlushStart
    \/ FlushCommit
    \/ FlushFail
    \/ UpdateCursor
    \/ UpdateCursorFail
    \/ Crash

SpecIngest == IngestInit /\ [][IngestNext]_vars

\* The resume scenario: create post P1 at t=100, a like of P1 at t=200, a barrier
\* at t=300.
ResumeScript == <<EvCreateP1, EvLikeOther, EvBarrier>>

ResumeInit ==
    /\ OpsIdle
    /\ RetryIdle
    /\ InteractIdle
    /\ GraphIdle
    /\ Configured
    /\ stream = <<>>
    /\ sub = "closed"
    /\ pos = 1
    /\ awaiting = {}
    /\ cursor = 0
    /\ pending = EmptyBatch
    /\ isFlushing = FALSE
    /\ flushPc = "idle"
    /\ toFlush = EmptyBatch
    /\ post = [u \in PostUris |-> NoRow]
    /\ graph_interaction = <<>>
    /\ dbCursor = 0
    /\ trackedInteractionDids = {}
    /\ faults = [k \in FaultKinds |-> 0]
    /\ script = ResumeScript
    /\ connStart = 1
    /\ flushStartPos = 0
    /\ cleanCrash = FALSE
    /\ FeedIdle
    /\ PipelineIdle
    /\ LaterIdle

\* The scenario's run: events handled one after the other, flushes that commit,
\* crashes and restarts.
ResumeNext ==
    \/ Run
    \/ Deliver
    \/ FlushStart
    \/ FlushCommit
    \/ UpdateCursor
    \/ Crash

SpecResume == ResumeInit /\ [][ResumeNext]_vars

(***************************************************************************)
(* The feed request (getFeedSkeleton) and the ranking handler behind it.     *)
(***************************************************************************)
AuthorA == "did:plc:a"
AuthorB == "did:plc:b"
PostA1 == "at://did:plc:a/app.bsky.feed.post/1"
PostA2 == "at://did:plc:a/app.bsky.feed.post/2"
PostA3 == "at://did:plc:a/app.bsky.feed.post/3"
PostB1 == "at://did:plc:b/app.bsky.feed.post/1"
FeedUris == {PostA1, PostA2, PostA3, PostB1}

\* post.author, and the DID that extractAuthor finds in the uri.
Author(u) == IF u = PostB1 THEN AuthorB ELSE AuthorA

\* new Date(post.indexedAt).getTime().
IndexedAt(u) == IF u = PostA3 THEN 2 ELSE 1

\* Position of the uri in the order of localeCompare.
UriOrder(u) ==
    IF u = PostA1 THEN 1 ELSE IF u = PostA2 THEN 2 ELSE IF u = PostA3 THEN 3 ELSE 4

\* The jitter of the post: a hash of uri + requesterDid modulo the jitter range.
Jitter(u) == IF u = PostB1 THEN 7 ELSE 0

\* ctx.cfg.whitelist, and the feeds the server has an algorithm for.
Whitelist == {OwnDid}
Algos == {"social-graph"}

\* Scores a post can have before the penalty for the requester's own interaction.
ScoreValues == {90, 9999}

\* The values of params.limit: 0 stands for a request without one.
Limits == {0, 2}

LikeOf(u) == [actor |-> OwnDid, target |-> u, type |-> "like", weight |-> 1,
              interactionUri |-> "at://did:plc:u/app.bsky.feed.like/1"]
RepostOf(u) == [actor |-> OwnDid, target |-> u, type |-> "repost", weight |-> 2,
                interactionUri |-> "at://did:plc:u/app.bsky.feed.repost/1"]

\* Number of places of a sequence that hold x.
Occurrences(q, x) == Cardinality({i \in DOMAIN q : q[i] = x})

\* The orders in which a query without ORDER BY can return the rows.
Orderings(rows) ==
    {q \in [DOMAIN rows -> DOMAIN rows] :
        \A i, j \in DOMAIN rows : q[i] = q[j] => i = j}

Reordered(rows, q) == [i \in DOMAIN rows |-> rows[q[i]]]

\* userInteractions.forEach(ui => userInteractionMap[ui.target] = ui.type).
UserInteractionMap(rows) ==
    [u \in FeedUris |->
        LET at == {i \in DOMAIN rows : rows[i].target = u}
        IN  IF at = {} THEN None
            ELSE rows[CHOOSE i \in at : \A j \in at : j <= i].type]

\* The penalty for a post the requester has already liked, reposted or replied to.
InteractionPenalty(type) ==
    IF type = "like" THEN 8000
    ELSE IF type = "repost" THEN 6000
    ELSE IF type = "reply" THEN 5000
    ELSE 0

RECURSIVE Pow2(_)
Pow2(n) == IF n = 0 THEN 1 ELSE 2 * Pow2(n - 1)

\* The score of a post that has seenCount seen rows: the interaction penalty, the
\* 0.5 ^ seenCount multiplier, the jitter, and Math.round.
ScoreSeen(u, map, seenCount) ==
    LET penalised == candidates[u].base - InteractionPenalty(map[u])
    IN  ((2 * penalised + Pow2(seenCount)) \div (2 * Pow2(seenCount))) + Jitter(u)

\* The score of a post, outside batchMode.
Score(u, map) == ScoreSeen(u, map, user_seen_post[u])

\* scoredPosts.filter for posts that are not replies; score holds the scores.
Filtered(map, score) ==
    {u \in DOMAIN candidates :
        /\ map[u] # "like"
        /\ ~(/\ candidates[u].likeCount = 0
             /\ candidates[u].repostCount = 0
             /\ user_seen_post[u] >= 3)
        /\ score[u] > -5000}

\* The comparator of finalPool.sort: score desc, indexedAt desc, uri asc.
SortsBefore(a, b, score) ==
    \/ score[a] > score[b]
    \/ /\ score[a] = score[b]
       /\ \/ IndexedAt(a) > IndexedAt(b)
          \/ IndexedAt(a) = IndexedAt(b) /\ UriOrder(a) < UriOrder(b)

RECURSIVE SortPool(_, _)
SortPool(S, score) ==
    IF S = {} THEN <<>>
    ELSE LET first == CHOOSE a \in S : \A b \in S \ {a} : SortsBefore(a, b, score)
         IN  <<first>> \o SortPool(S \ {first}, score)

\* Thread deduplication keeps every post that is not a reply: each is its own thread.
FinalPool(map, score) == SortPool(Filtered(map, score), score)

RemoveAt(q, i) == SubSeq(q, 1, i - 1) \o SubSeq(q, i + 1, Len(q))

\* The while loop of applyAccountDiversity.
RECURSIVE DiversityLoop(_, _, _, _, _)
DiversityLoop(result, usedAuthors, remainingPosts, n, score) ==
    IF remainingPosts = <<>> \/ Len(result) >= n
    THEN result \o remainingPosts
    ELSE LET eligible == {i \in DOMAIN remainingPosts :
                             Author(remainingPosts[i]) \notin usedAuthors}
         IN  IF eligible = {}
             THEN DiversityLoop(Append(result, Head(remainingPosts)),
                                usedAuthors \cup {Author(Head(remainingPosts))},
                                Tail(remainingPosts), n, score)
             ELSE LET bestIndex ==
                          CHOOSE i \in eligible :
                              \A j \in eligible :
                                  \/ score[remainingPosts[j]] < score[remainingPosts[i]]
                                  \/ /\ score[remainingPosts[j]]
                                            = score[remainingPosts[i]]
                                     /\ i <= j
                      grown == Append(result, remainingPosts[bestIndex])
                      used == IF Len(grown) % 3 = 0
                              THEN {Author(grown[Len(grown)]),
                                    Author(grown[Len(grown) - 1])}
                              ELSE usedAuthors \cup {Author(remainingPosts[bestIndex])}
                  IN  DiversityLoop(grown, used, RemoveAt(remainingPosts, bestIndex),
                                    n, score)

applyAccountDiversity(posts, score) ==
    IF Len(posts) <= 1 THEN posts
    ELSE LET result == DiversityLoop(<<Head(posts)>>, {Author(Head(posts))},
                                     Tail(posts), Len(posts), score)
         IN  IF 2 * Len(result) < Len(posts) THEN posts ELSE result

\* The cursor string `${score}::${time}::${uri}`, as the parts split('::') finds.
RankCursor(u, score) == <<score[u], IndexedAt(u), u>>

\* The filter of the cursor: the posts that sort after the cursor's post.
AfterCursor(u, parts, score) ==
    \/ score[u] < parts[1]
    \/ /\ score[u] = parts[1]
       /\ \/ IndexedAt(u) < parts[2]
          \/ IndexedAt(u) = parts[2] /\ UriOrder(u) < UriOrder(parts[3])

\* The ranking handler in serve mode, for posts that are not replies.
handler(params, rows) ==
    LET map == UserInteractionMap(rows)
        score == [u \in DOMAIN candidates |-> Score(u, map)]
        diversifiedPool == applyAccountDiversity(FinalPool(map, score), score)
        limit == IF params.limit = 0 THEN 30
                 ELSE IF params.limit > 100 THEN 100 ELSE params.limit
        slicePool == IF Len(params.cursor) >= 3
                     THEN SelectSeq(diversifiedPool,
                                    LAMBDA u : AfterCursor(u, params.cursor, score))
                     ELSE diversifiedPool
        page == SubSeq(slicePool, 1, IF Len(slicePool) < limit THEN Len(slicePool)
                                     ELSE limit)
    IN  [feed |-> page,
         cursor |-> IF page # <<>> /\ Len(page) = limit
                    THEN RankCursor(page[Len(page)], score) ELSE NoCursor]

\* The rows of graph_interaction the handler selects for the requester.
UserInteractions(requesterDid) ==
    SelectSeq(graph_interaction,
              LAMBDA r : r.actor = requesterDid /\ r.type \in {"like", "repost", "reply"})

\* The request fails with an error of this kind: no body.
\* A rejection that carries the posts of the candidates as fallback content.
RejectedWithFallback(kind) ==
    [status |-> kind, limit |-> 0, cursorIn |-> NoCursor, read |-> <<>>,
     feed |-> <<"at://did:plc:a/app.bsky.feed.post/1">>, cursor |-> NoCursor]

\* The InvalidRequestError the handler throws: an error kind and no body.
Rejected(kind) ==
    [status |-> kind, limit |-> 0, cursorIn |-> NoCursor, read |-> <<>>,
     feed |-> <<>>, cursor |-> NoCursor]

\* getFeedSkeleton without the write of the served log.
GetFeedSkeletonUnlogged(feed, requesterDid, limit, reqCursor) ==
    /\ requests < MaxRequests
    /\ DOMAIN user_candidate_batch = {}
    /\ requests' = requests + 1
    /\ IF feed \notin Algos
       THEN response' = Rejected("UnsupportedAlgorithm")
       ELSE IF whitelist # {} /\ requesterDid \notin whitelist
       THEN response' = Rejected("AccountRestricted")
       ELSE \E q \in Orderings(UserInteractions(requesterDid)) :
               LET rows == Reordered(UserInteractions(requesterDid), q)
                   body == handler([limit |-> limit, cursor |-> reqCursor], rows)
               IN  response' = [status |-> "ok", limit |-> limit, cursorIn |-> reqCursor,
                                read |-> rows, feed |-> body.feed,
                                cursor |-> body.cursor]
    /\ UNCHANGED <<candidates, user_seen_post, user_served_post, servedInserts,
                   ingestVars, pipelineVars, laterVars>>

\* getFeedSkeleton for a requester that has no row in user_candidate_batch:
\* serveFromBatchesOrFallback returns what the ranking handler returns. The insert
\* into user_served_post is started and not awaited.
GetFeedSkeleton(feed, requesterDid, limit, reqCursor) ==
    /\ requests < MaxRequests
    /\ DOMAIN user_candidate_batch = {}
    /\ requests' = requests + 1
    /\ IF feed \notin Algos
       THEN /\ response' = Rejected("UnsupportedAlgorithm")
            /\ servedInserts' = servedInserts
       ELSE IF whitelist # {} /\ requesterDid \notin whitelist
       THEN /\ response' = Rejected("AccountRestricted")
            /\ servedInserts' = servedInserts
       ELSE \E q \in Orderings(UserInteractions(requesterDid)) :
               LET rows == Reordered(UserInteractions(requesterDid), q)
                   body == handler([limit |-> limit, cursor |-> reqCursor], rows)
               IN  /\ response' = [status |-> "ok", limit |-> limit,
                                   cursorIn |-> reqCursor, read |-> rows,
                                   feed |-> body.feed, cursor |-> body.cursor]
                   /\ servedInserts' = IF body.feed # <<>>
                                       THEN Append(servedInserts, body.feed)
                                       ELSE servedInserts
    /\ UNCHANGED <<candidates, user_seen_post, user_served_post, ingestVars,
                   pipelineVars, laterVars>>

\* The rows an insert of the served uris adds.
AddServed(tbl, uris) == [u \in FeedUris |-> tbl[u] + Occurrences(uris, u)]

\* An insert into user_served_post completes.
ServedInsertCommit ==
    /\ \E i \in DOMAIN servedInserts :
          /\ user_served_post' = AddServed(user_served_post, servedInserts[i])
          /\ servedInserts' = RemoveAt(servedInserts, i)
    /\ UNCHANGED <<candidates, user_seen_post, response, requests, ingestVars,
                   pipelineVars, laterVars>>

\* An insert into user_served_post fails: .catch logs the error.
ServedInsertFail ==
    /\ \E i \in DOMAIN servedInserts :
          servedInserts' = RemoveAt(servedInserts, i)
    /\ UNCHANGED <<candidates, user_seen_post, user_served_post, response, requests,
                   ingestVars, pipelineVars, laterVars>>

CandidateRows == {[base |-> b, likeCount |-> 0, repostCount |-> 0] : b \in ScoreValues}

\* The snapshots a request can find: a pool of posts with their scores, what the
\* requester did to PostA1, how often the requester has seen PostA2.
FeedInit ==
    /\ OpsIdle
    /\ RetryIdle
    /\ InteractIdle
    /\ GraphIdle
    /\ whitelist \in {{}, Whitelist}
    /\ candidates \in UNION {[S -> CandidateRows] : S \in SUBSET FeedUris}
    /\ user_seen_post \in {[u \in FeedUris |-> IF u = PostA2 THEN n ELSE 0] :
                              n \in 0..MaxSeen}
    /\ graph_interaction \in {<<>>, <<LikeOf(PostA1)>>, <<RepostOf(PostA1)>>,
                              <<LikeOf(PostA1), RepostOf(PostA1)>>}
    /\ user_served_post = [u \in FeedUris |-> 0]
    /\ servedInserts = <<>>
    /\ response = NoResponse
    /\ requests = 0
    /\ post = [u \in PostUris |-> NoRow]
    /\ dbCursor = 0
    /\ IngesterIdle
    /\ PipelineIdle
    /\ LaterIdle

FeedNext ==
    \/ \E feed \in Algos \cup {"unknown"}, requesterDid \in {OwnDid, OtherDid},
          limit \in Limits, reqCursor \in {NoCursor, response.cursor} :
             GetFeedSkeleton(feed, requesterDid, limit, reqCursor)
    \/ ServedInsertCommit
    \/ ServedInsertFail

SpecFeed == FeedInit /\ [][FeedNext]_vars

(***************************************************************************)
(* The batch pipeline of the feed server (FeedGenerator.runBatchPipeline).  *)
(***************************************************************************)
\* Number of pipeline child processes that are running.
RunningChildren == Cardinality({i \in DOMAIN children : children[i] = "running"})

\* spawn(): the child runs, or the spawn fails and the child emits 'error', or
\* spawn throws.
SpawnOutcomes == {"running", "failed", "threw"}

\* runBatchPipeline without its first guard.
RunBatchPipelineUnguarded(forcePriority) ==
    /\ IF ~forcePriority /\ now - lastPipelineRunAt < CooldownMinutes
       THEN /\ lastTrigger' = "recently run"
            /\ UNCHANGED <<isPipelineRunning, lastPipelineRunAt, children>>
       ELSE /\ Len(children) < MaxRuns
            /\ \E outcome \in SpawnOutcomes :
                  /\ children' = Append(children, outcome)
                  /\ isPipelineRunning' = (outcome # "threw")
            /\ lastPipelineRunAt' = now
            /\ lastTrigger' = "started"
    /\ UNCHANGED now

\* runBatchPipeline(forcePriority): a timer calls it with false, a feed request
\* that finds the batches half consumed with true.
RunBatchPipeline(forcePriority) ==
    /\ IF isPipelineRunning
       THEN /\ lastTrigger' = "already running"
            /\ UNCHANGED <<isPipelineRunning, lastPipelineRunAt, children>>
       ELSE IF ~forcePriority /\ now - lastPipelineRunAt < CooldownMinutes
       THEN /\ lastTrigger' = "recently run"
            /\ UNCHANGED <<isPipelineRunning, lastPipelineRunAt, children>>
       ELSE /\ Len(children) < MaxRuns
            /\ \E outcome \in SpawnOutcomes :
                  /\ children' = Append(children, outcome)
                  /\ isPipelineRunning' = (outcome # "threw")
            /\ lastPipelineRunAt' = now
            /\ lastTrigger' = "started"
    /\ UNCHANGED now

\* child.on('exit'): the child process ends, with code 0 or not.
ChildExit ==
    /\ \E i \in DOMAIN children :
          /\ children[i] = "running"
          /\ children' = [children EXCEPT ![i] = "exited"]
    /\ isPipelineRunning' = FALSE
    /\ UNCHANGED <<lastPipelineRunAt, now, lastTrigger, ingestVars, feedVars, laterVars>>

\* An 'error' handler that logs the failure and leaves the flag as it is.
ChildErrorKeepsFlag ==
    /\ \E i \in DOMAIN children :
          /\ children[i] = "failed"
          /\ children' = [children EXCEPT ![i] = "errored"]
    /\ UNCHANGED <<isPipelineRunning, lastPipelineRunAt, now, lastTrigger, ingestVars,
                   feedVars, laterVars>>

\* child.on('error'): the process could not be spawned.
ChildError ==
    /\ \E i \in DOMAIN children :
          /\ children[i] = "failed"
          /\ children' = [children EXCEPT ![i] = "errored"]
    /\ isPipelineRunning' = FALSE
    /\ UNCHANGED <<lastPipelineRunAt, now, lastTrigger, ingestVars, feedVars, laterVars>>

\* Time passes: a minute, or a cooldown.
Tick ==
    /\ \E d \in {1, CooldownMinutes} :
          /\ now + d <= MaxClock
          /\ now' = now + d
    /\ UNCHANGED <<isPipelineRunning, lastPipelineRunAt, children, lastTrigger,
                   ingestVars, feedVars, laterVars>>

PipelineInit ==
    /\ OpsIdle
    /\ RetryIdle
    /\ InteractIdle
    /\ GraphIdle
    /\ Configured
    /\ PipelineIdle
    /\ FeedIdle
    /\ IngestIdle
    /\ LaterIdle

PipelineNext ==
    \/ \E forcePriority \in BOOLEAN :
          RunBatchPipeline(forcePriority) /\ UNCHANGED <<ingestVars, feedVars, laterVars>>
    \/ ChildExit
    \/ ChildError
    \/ Tick

SpecPipeline == PipelineInit /\ [][PipelineNext]_vars

\* The child process ends: the script leaves through process.exit(0) after its
\* last user and through process.exit(1) on a fatal error, and Node emits 'exit'
\* for a child that ended and 'error' for one it could not spawn.
PipelineFairness == WF_vars(ChildExit) /\ WF_vars(ChildError)

SpecPipelineLive == PipelineInit /\ [][PipelineNext]_vars /\ PipelineFairness

\* The scores before the seen multiplier of the posts whose seen count varies: a
\* cold post under the cold_unknown_penalty, small scores, a usual score.
SeenBases == {-1000, 0, 3, 1000}

\* The snapshots of the requests that rank PostA2 and PostB1, seen or not.
SeenInit ==
    /\ OpsIdle
    /\ RetryIdle
    /\ InteractIdle
    /\ GraphIdle
    /\ Configured
    /\ candidates \in UNION {[S -> {[base |-> b, likeCount |-> 0, repostCount |-> 0] :
                                       b \in SeenBases}] : S \in SUBSET {PostA2, PostB1}}
    /\ user_seen_post \in [FeedUris -> 0..MaxSeen]
    /\ graph_interaction = <<>>
    /\ user_served_post = [u \in FeedUris |-> 0]
    /\ servedInserts = <<>>
    /\ response = NoResponse
    /\ requests = 0
    /\ post = [u \in PostUris |-> NoRow]
    /\ dbCursor = 0
    /\ IngesterIdle
    /\ PipelineIdle
    /\ LaterIdle

SeenNext ==
    \E limit \in Limits, reqCursor \in {NoCursor, response.cursor} :
        GetFeedSkeleton("social-graph", OwnDid, limit, reqCursor)

SpecSeen == SeenInit /\ [][SeenNext]_vars

(***************************************************************************)
(* Serving from the semantic batches (serveFromBatchesOrFallback).          *)
(***************************************************************************)
\* The posts a batch can hold, and the rows it can hold for them: a post of the
\* discovery sandbox (pipelineScore -4000) and a post the pipeline ranks high.
\* semantic is semanticScore * 1800 * impactMultiplier, which is positive for a
\* row within the TTL.
BatchUris == {PostA1, PostA2, PostB1}
BatchRows == {[pipelineScore |-> -4000, semantic |-> 200],
              [pipelineScore |-> 1000, semantic |-> 700]}

\* The seen rows a batch post has within the lookback of seven days.
SeenCounts == {0, 1, 3}

MIN_POSTS_THRESHOLD == 20

\* row.pipelineScore * 0.3 + row.semanticScore * 1800 * impactMultiplier.
EffectiveScore(row) == (row.pipelineScore * 3) \div 10 + row.semantic

\* The targets of the requester's likes, reposts and replies.
LikedUris(requesterDid) ==
    {graph_interaction[i].target : i \in DOMAIN UserInteractions(requesterDid)}

\* authorFatigueMap[author] || 0, in hundredths.
AuthorFatigue(author) ==
    IF author \in DOMAIN user_author_fatigue
    THEN user_author_fatigue[author].fatigueScore ELSE 0

\* The score of a batch post after the seen penalty (0.2 ^ seenCount, -501 from
\* three views on) and the penalty for a fatigued author.
AdjustedScore(u) ==
    LET e == EffectiveScore(user_candidate_batch[u])
        seenCount == user_seen_post[u]
        seen == IF seenCount = 0 THEN e
                ELSE IF seenCount >= 3 THEN -501
                ELSE IF seenCount = 1 THEN e \div 5 ELSE e \div 25
        fatigueScore == AuthorFatigue(Author(u))
    IN  IF fatigueScore > 0 THEN seen - (fatigueScore * 12) \div 100 ELSE seen

\* The orders in which the store can return the rows of a set.
RowOrders(S) ==
    {q \in [1..Cardinality(S) -> S] : \A i, j \in 1..Cardinality(S) : q[i] = q[j] => i = j}

\* items.sort((a, b) => b.adjustedScore - a.adjustedScore): a stable sort.
RECURSIVE SortByAdjustedScore(_)
SortByAdjustedScore(items) ==
    IF items = <<>> THEN <<>>
    ELSE LET n == Len(items)
             x == items[n]
             sorted == SortByAdjustedScore(SubSeq(items, 1, n - 1))
             k == Cardinality({i \in DOMAIN sorted :
                                  sorted[i].adjustedScore >= x.adjustedScore})
         IN  SubSeq(sorted, 1, k) \o <<x>> \o SubSeq(sorted, k + 1, Len(sorted))

\* The diversity of the batches: a candidate whose author is one of the last two
\* authors taken is dropped.
RECURSIVE Diversified(_, _)
Diversified(filtered, recentAuthors) ==
    IF filtered = <<>> THEN <<>>
    ELSE LET c == Head(filtered)
             n == Len(recentAuthors)
             last2 == {recentAuthors[i] : i \in {j \in 1..n : j > n - 2}}
         IN  IF c.author \in last2
             THEN Diversified(Tail(filtered), recentAuthors)
             ELSE <<c>> \o Diversified(Tail(filtered), Append(recentAuthors, c.author))

\* The live items: the feed of the ranking handler without the posts that are
\* positive in the batch or liked, scored from baseLiveScore down by 5 a rank.
LiveItems(liveFeed, params, likedUris) ==
    LET currentCursorScore == IF params.cursor # NoCursor THEN params.cursor[1]
                              ELSE 1001
        baseLiveScore == IF currentCursorScore - 1 < 1000 THEN currentCursorScore - 1
                         ELSE 1000
        kept == SelectSeq(liveFeed, LAMBDA u :
                    /\ ~(/\ u \in DOMAIN user_candidate_batch
                         /\ EffectiveScore(user_candidate_batch[u]) > 0)
                    /\ u \notin likedUris)
    IN  [i \in DOMAIN kept |-> [uri |-> kept[i], author |-> Author(kept[i]),
                                adjustedScore |-> baseLiveScore - (i - 1) * 5]]

\* The filter of the cursor `${adjustedScore}::${uri}`. A cursor of three parts is
\* one of the ranking handler: its second and third part make a cursorUri that
\* starts with a digit, which no uri sorts before.
AfterBatchCursor(c, parts) ==
    \/ c.adjustedScore < parts[1]
    \/ /\ c.adjustedScore = parts[1]
       /\ Len(parts) = 2
       /\ UriOrder(c.uri) < UriOrder(parts[2])

\* The consumption of the batches is at least 0.5: of the unique candidates, the
\* ones with a seen row are half or more.
HalfConsumed ==
    LET totalBatchCandidates == Cardinality(DOMAIN user_candidate_batch)
        totalServedFromBatches ==
            Cardinality({u \in DOMAIN user_candidate_batch : user_seen_post[u] > 0})
    IN  totalBatchCandidates > 0 /\ 2 * totalServedFromBatches >= totalBatchCandidates

\* serveFromBatchesOrFallback, the batch candidates: batchRows in the order q,
\* with the seen and fatigue penalties, without the liked and the worn-out posts,
\* sorted and diversified.
BatchPool(requesterDid, q) ==
    LET likedUris == LikedUris(requesterDid)
        decayed == [i \in DOMAIN q |-> [uri |-> q[i], author |-> Author(q[i]),
                                        adjustedScore |-> AdjustedScore(q[i])]]
    IN  Diversified(SortByAdjustedScore(SelectSeq(decayed, LAMBDA c :
                        c.uri \notin likedUris /\ c.adjustedScore > -500)),
                    <<>>)

\* serveFromBatchesOrFallback, the intersplice: below MIN_POSTS_THRESHOLD batch
\* candidates the live items are added and the whole is sorted again.
FinalResults(diversified, liveFeed, params, requesterDid) ==
    IF Len(diversified) < MIN_POSTS_THRESHOLD
    THEN SortByAdjustedScore(
             diversified \o LiveItems(liveFeed, params, LikedUris(requesterDid)))
    ELSE diversified

\* serveFromBatchesOrFallback, from finalResults on: the feed, the cursor, and
\* whether ctx.triggerBatchPipeline(true) is called.
serveFromBatchesOrFallback(params, finalResults, liveResult) ==
    LET limit == IF params.limit = 0 THEN 30
                 ELSE IF params.limit > 100 THEN 100 ELSE params.limit
        slicePool == IF Len(params.cursor) >= 2
                     THEN SelectSeq(finalResults,
                                    LAMBDA c : AfterBatchCursor(c, params.cursor))
                     ELSE finalResults
        page == SubSeq(slicePool, 1, IF Len(slicePool) < limit THEN Len(slicePool)
                                     ELSE limit)
    IN  IF finalResults = <<>>
        THEN [feed |-> liveResult.feed, cursor |-> liveResult.cursor, trigger |-> FALSE]
        ELSE [feed |-> [i \in DOMAIN page |-> page[i].uri],
              cursor |-> IF page # <<>> /\ Len(page) = limit
                         THEN <<page[Len(page)].adjustedScore, page[Len(page)].uri>>
                         ELSE NoCursor,
              trigger |-> HalfConsumed]

\* getFeedSkeleton for a whitelisted requester that has rows in
\* user_candidate_batch, which the store returns in the order q. The insert into
\* user_served_post is started and not awaited; the updates of the author fatigue
\* and the graph build it starts in the background are the actions
\* UpdateAuthorFatigueOnServe and BuildUserGraph.
ServeFromBatches(limit, reqCursor) ==
    /\ requests < MaxRequests
    /\ DOMAIN user_candidate_batch # {}
    /\ requests' = requests + 1
    /\ \E q \in RowOrders(DOMAIN user_candidate_batch),
          params \in {[limit |-> limit, cursor |-> reqCursor]} :
       \E diversified \in {BatchPool(OwnDid, q)},
          liveResult \in {handler(params, UserInteractions(OwnDid))} :
       \E finalResults \in {FinalResults(diversified, liveResult.feed, params, OwnDid)} :
       \E body \in {serveFromBatchesOrFallback(params, finalResults, liveResult)} :
          /\ response' = [status |-> "ok", limit |-> limit, cursorIn |-> reqCursor,
                          read |-> UserInteractions(OwnDid), feed |-> body.feed,
                          cursor |-> body.cursor]
          /\ servedInserts' = IF body.feed # <<>>
                              THEN Append(servedInserts, body.feed)
                              ELSE servedInserts
          /\ IF body.trigger
             THEN /\ triggerCalls' = Append(triggerCalls, TRUE)
                  /\ RunBatchPipeline(TRUE)
             ELSE UNCHANGED <<triggerCalls, pipelineVars>>
    /\ UNCHANGED <<candidates, user_seen_post, user_served_post, user_candidate_batch,
                   learnVars, sideVars, interactVars, ingestVars>>

\* The rows of user_author_fatigue a request can find for AuthorB: none, or a row
\* at the highest fatigue.
TiredOfB == [a \in {AuthorB} |-> [serveCount |-> 7, fatigueScore |-> 10000,
                                  affinityScore |-> 100, lastServedAt |-> 0,
                                  lastInteractionAt |-> Never]]

\* The snapshots a request can find: the batch rows of the requester and how often
\* each was seen, a like of PostA1 or none, a live candidate or none.
ServeInit ==
    /\ OpsIdle
    /\ RetryIdle
    /\ InteractIdle
    /\ GraphIdle
    /\ Configured
    /\ ReplyIdle
    /\ user_candidate_batch \in UNION {[S -> BatchRows] : S \in SUBSET BatchUris}
    /\ user_seen_post \in {f \in [FeedUris -> SeenCounts] :
                              \A u \in FeedUris \ DOMAIN user_candidate_batch : f[u] = 0}
    /\ graph_interaction \in {<<>>, <<LikeOf(PostA1)>>}
    /\ user_author_fatigue \in {<<>>, TiredOfB}
    /\ taste_reputation = <<>>
    /\ user_keyword = <<>>
    /\ today = 0
    /\ updates = 0
    /\ keywordJob = "idle"
    /\ candidates \in {<<>>, [u \in {PostA3} |-> [base |-> 90, likeCount |-> 0,
                                                  repostCount |-> 0]]}
    /\ triggerCalls = <<>>
    /\ user_served_post = [u \in FeedUris |-> 0]
    /\ servedInserts = <<>>
    /\ response = NoResponse
    /\ requests = 0
    /\ post = [u \in PostUris |-> NoRow]
    /\ dbCursor = 0
    /\ IngesterIdle
    /\ PipelineIdle

ServeNext ==
    \/ \E limit \in Limits, reqCursor \in {NoCursor, response.cursor} :
          ServeFromBatches(limit, reqCursor)
    \/ \E limit \in Limits, reqCursor \in {NoCursor, response.cursor} :
          GetFeedSkeleton("social-graph", OwnDid, limit, reqCursor)
    \/ ChildExit
    \/ ChildError

SpecServe == ServeInit /\ [][ServeNext]_vars

(***************************************************************************)
(* What the server learns about the requester: the reputation of the users   *)
(* that like what the requester likes (updateTasteReputation), the fatigue   *)
(* and affinity of authors (updateAuthorFatigueOnServe and the like), and    *)
(* the keyword scores (handleInteractionFeedback, the daily keywords job).   *)
(* Scores are fixed-point numbers: reputationScore in 1/100000, decayRate in *)
(* 1/1000, fatigueScore and affinityScore in 1/100, keyword scores in        *)
(* 1/10000. A product is rounded down.                                       *)
(***************************************************************************)
LikerX == "did:plc:x"
LikerY == "did:plc:y"

Min(a, b) == IF a < b THEN a ELSE b
Max(a, b) == IF a > b THEN a ELSE b

ReputationActions == {"agreement", "disagreement", "served_ignored", "served_liked",
                      "explicit_more", "explicit_less"}

\* newScore *= Math.pow(existing.decayRate, hoursSinceUpdate / 24).
RECURSIVE Decayed(_, _, _)
Decayed(score, decayRate, days) ==
    IF days = 0 THEN score
    ELSE Decayed((score * decayRate) \div 1000, decayRate, days - 1)

\* The switch on the action: the new score.
ActionScore(newScore, action) ==
    CASE action = "agreement" -> Min(300000, (newScore * 115) \div 100)
      [] action = "disagreement" -> Max(10000, (newScore * 85) \div 100)
      [] action = "explicit_more" -> Min(500000, (newScore * 16) \div 10)
      [] action = "explicit_less" -> Max(100, newScore \div 10)
      [] action = "served_liked" -> Min(300000, (newScore * 105) \div 100)
      [] action = "served_ignored" -> Max(10000, (newScore * 95) \div 100)

\* The switch on the action: the new decay rate.
ActionDecayRate(newDecayRate, action) ==
    CASE action = "agreement" -> Min(990, (newDecayRate * 102) \div 100)
      [] action = "disagreement" -> Max(800, (newDecayRate * 95) \div 100)
      [] action = "explicit_more" -> Min(999, (newDecayRate * 11) \div 10)
      [] action = "explicit_less" -> Max(500, newDecayRate \div 2)
      [] action = "served_liked" -> Min(990, (newDecayRate * 101) \div 100)
      [] action = "served_ignored" -> Max(850, (newDecayRate * 99) \div 100)

\* updateTasteReputation without the decay for the time since the last update.
updateTasteReputationUndecayed(tbl, similarUserDid, action) ==
    IF similarUserDid \notin DOMAIN tbl
    THEN tbl @@ (similarUserDid :>
                    [reputationScore |-> IF action = "agreement" THEN 120000 ELSE 80000,
                     decayRate |-> 950, updatedAt |-> today])
    ELSE LET existing == tbl[similarUserDid]
         IN  [tbl EXCEPT ![similarUserDid] =
                 [reputationScore |-> ActionScore(existing.reputationScore, action),
                  decayRate |-> ActionDecayRate(existing.decayRate, action),
                  updatedAt |-> today]]

\* updateTasteReputation(ctx, userDid, similarUserDid, action) for the requester:
\* the table after it. agreementHistory, which nothing modelled reads, is left out.
\* An insert that loses against a concurrent insert re-reads the row and updates it,
\* which is the update of the existing row.
updateTasteReputation(tbl, similarUserDid, action) ==
    IF similarUserDid \notin DOMAIN tbl
    THEN tbl @@ (similarUserDid :>
                    [reputationScore |-> IF action = "agreement" THEN 120000 ELSE 80000,
                     decayRate |-> 950, updatedAt |-> today])
    ELSE LET existing == tbl[similarUserDid]
             newScore == Decayed(existing.reputationScore, existing.decayRate,
                                 today - existing.updatedAt)
         IN  [tbl EXCEPT ![similarUserDid] =
                 [reputationScore |-> ActionScore(newScore, action),
                  decayRate |-> ActionDecayRate(existing.decayRate, action),
                  updatedAt |-> today]]

\* The cap of the scores of a row of user_author_fatigue.
Capped(row) ==
    [row EXCEPT !.fatigueScore = Min(10000, Max(-10000, row.fatigueScore)),
                !.affinityScore = Min(1000, Max(10, row.affinityScore))]

\* updateAuthorFatigueOnServe: the table after it. serveCount 7 stands for any
\* count above 6; interactionWeight and interactionCount, which change no score,
\* are left out. The select and the write are one step.
updateAuthorFatigueOnServe(tbl, authorDid) ==
    IF authorDid \notin DOMAIN tbl
    THEN tbl @@ (authorDid :> [serveCount |-> 1, fatigueScore |-> 1000,
                               affinityScore |-> 100, lastServedAt |-> today,
                               lastInteractionAt |-> Never])
    ELSE LET existing == tbl[authorDid]
             newServeCount == existing.serveCount + 1
             daysSinceLastServe == today - existing.lastServedAt
             served == existing.fatigueScore +
                          (IF newServeCount <= 3 THEN 300
                           ELSE IF newServeCount <= 6 THEN 500 ELSE 800)
             cooled == existing.affinityScore - 5
             newFatigueScore == IF daysSinceLastServe > 2 THEN (served * 7) \div 10
                                ELSE IF daysSinceLastServe > 1 THEN (served * 85) \div 100
                                ELSE served
             newAffinityScore == IF daysSinceLastServe > 2 THEN (cooled * 95) \div 100
                                 ELSE cooled
         IN  [tbl EXCEPT ![authorDid] =
                 Capped([existing EXCEPT !.serveCount = Min(7, newServeCount),
                                         !.lastServedAt = today,
                                         !.fatigueScore = newFatigueScore,
                                         !.affinityScore = newAffinityScore])]

InteractionTypes == {"like", "repost", "reply"}

\* updateAuthorFatigueOnInteraction: the table after it.
updateAuthorFatigueOnInteraction(tbl, authorDid, interactionType) ==
    IF authorDid \notin DOMAIN tbl
    THEN tbl @@ (authorDid :> [serveCount |-> 0, fatigueScore |-> 0,
                               affinityScore |-> 200, lastServedAt |-> today,
                               lastInteractionAt |-> today])
    ELSE LET existing == tbl[authorDid]
             first == \/ existing.lastInteractionAt = Never
                      \/ today - existing.lastInteractionAt > 3
             reduction == CASE interactionType = "like" -> 2500
                            [] interactionType = "repost" -> 3000
                            [] interactionType = "reply" -> 2000
             boost == CASE interactionType = "like" -> 80
                        [] interactionType = "repost" -> 120
                        [] interactionType = "reply" -> 50
         IN  [tbl EXCEPT ![authorDid] =
                 Capped([existing EXCEPT
                     !.lastInteractionAt = today,
                     !.fatigueScore = existing.fatigueScore - reduction
                                         - (IF first THEN 1500 ELSE 0),
                     !.affinityScore = existing.affinityScore + boost
                                          + (IF first THEN 50 ELSE 0)])]

\* updateAffinityOnSeen: the table after it.
updateAffinityOnSeen(tbl, authorDid) ==
    IF authorDid \in DOMAIN tbl /\ tbl[authorDid].affinityScore > 10
    THEN [tbl EXCEPT ![authorDid].affinityScore = @ - 2]
    ELSE tbl

FeedbackTypes == {"more", "less"}
Strengths == {"strong", "weak"}

\* handleInteractionFeedback, step 2: the update of the author's row.
FeedbackOnAuthor(tbl, authorDid, type, strength) ==
    LET affinityAdj == IF strength = "strong" THEN 500 ELSE 100
        fatigueAdj == IF strength = "strong" THEN 6000 ELSE 2000
        finalAffinityAdj == IF type = "more" THEN affinityAdj ELSE 0 - affinityAdj
        finalFatigueAdj == IF type = "more" THEN 0 - fatigueAdj ELSE fatigueAdj
    IN  IF authorDid \in DOMAIN tbl
        THEN [tbl EXCEPT ![authorDid].affinityScore = @ + finalAffinityAdj,
                         ![authorDid].fatigueScore = @ + finalFatigueAdj]
        ELSE tbl

\* The words of post.text, lowercased and cleaned, and their lengths.
Text(u) == <<"hello", "adult", "the">>
WordLength(w) == IF w = "the" THEN 3 ELSE 5
restrictedKeywords == {"adult", "porn", "nsfw", "pornography", "xxx", "hentai", "furry"}

\* handleInteractionFeedback, step 3: the adjustment of the keyword scores.
RECURSIVE FeedbackOnKeywords(_, _, _)
FeedbackOnKeywords(tbl, words, adjustment) ==
    IF words = <<>> THEN tbl
    ELSE LET cleanWord == Head(words)
         IN  FeedbackOnKeywords(
                 IF WordLength(cleanWord) <= 4 \/ cleanWord \in restrictedKeywords
                 THEN tbl
                 ELSE IF cleanWord \in DOMAIN tbl
                 THEN [tbl EXCEPT ![cleanWord] =
                          Min(10000, Max(-10000, tbl[cleanWord] + adjustment))]
                 ELSE tbl @@ (cleanWord :> adjustment),
                 Tail(words), adjustment)

\* handleInteractionFeedback, step 4: the reputation of the likers, one by one.
RECURSIVE FeedbackOnLikers(_, _, _, _)
FeedbackOnLikers(tbl, likerDids, userDid, reputationAction) ==
    IF likerDids = <<>> THEN tbl
    ELSE FeedbackOnLikers(
             IF Head(likerDids) = userDid THEN tbl
             ELSE updateTasteReputation(tbl, Head(likerDids), reputationAction),
             Tail(likerDids), userDid, reputationAction)

\* The actors of the indexed likes of a post, which stand in when getPostLikers
\* returns nothing.
IndexedLikers(postUri) ==
    LET likes == SelectSeq(graph_interaction,
                           LAMBDA r : r.target = postUri /\ r.type = "like")
    IN  [i \in DOMAIN likes |-> likes[i].actor]

\* What getPostLikers can return for a post.
PostLikers == {<<>>, <<LikerX, LikerY>>, <<OwnDid, LikerX>>}

\* handleInteractionFeedback(ctx, userDid, postUri, type, strength), where
\* getPostLikers returns apiLikers.
handleInteractionFeedback(postUri, type, strength, apiLikers) ==
    /\ updates < MaxUpdates
    /\ updates' = updates + 1
    /\ IF ~post[postUri].exists
       THEN UNCHANGED <<user_author_fatigue, user_keyword, taste_reputation>>
       ELSE LET keywordAdj == IF strength = "strong" THEN 7000 ELSE 2000
                adjustment == IF type = "more" THEN keywordAdj ELSE 0 - keywordAdj
                likerDids == IF apiLikers = <<>> THEN IndexedLikers(postUri)
                             ELSE apiLikers
                reputationAction ==
                    IF strength = "strong"
                    THEN (IF type = "more" THEN "explicit_more" ELSE "explicit_less")
                    ELSE (IF type = "more" THEN "served_liked" ELSE "served_ignored")
            IN  /\ user_author_fatigue' =
                       FeedbackOnAuthor(user_author_fatigue, Author(postUri), type,
                                        strength)
                /\ user_keyword' = FeedbackOnKeywords(user_keyword, Text(postUri),
                                                      adjustment)
                /\ taste_reputation' =
                       FeedbackOnLikers(taste_reputation, likerDids, OwnDid,
                                        reputationAction)
    /\ UNCHANGED <<today, keywordJob, serveVars, sideVars, ingestVars, feedVars, pipelineVars>>

\* A call of updateTasteReputation from updateTasteSimilarity or from the ranking
\* handler.
UpdateTasteReputation(similarUserDid, action) ==
    /\ updates < MaxUpdates
    /\ updates' = updates + 1
    /\ taste_reputation' = updateTasteReputation(taste_reputation, similarUserDid, action)
    /\ UNCHANGED <<user_author_fatigue, user_keyword, today, keywordJob, serveVars, sideVars, interactVars,
                   ingestVars, feedVars, pipelineVars>>

\* A feed request served a post of the author.
UpdateAuthorFatigueOnServe(authorDid) ==
    /\ updates < MaxUpdates
    /\ updates' = updates + 1
    /\ user_author_fatigue' = updateAuthorFatigueOnServe(user_author_fatigue, authorDid)
    /\ UNCHANGED <<taste_reputation, user_keyword, today, keywordJob, serveVars, sideVars, interactVars,
                   ingestVars, feedVars, pipelineVars>>

\* The ingester saw the requester like, repost or answer a post of the author.
UpdateAuthorFatigueOnInteraction(authorDid, interactionType) ==
    /\ updates < MaxUpdates
    /\ updates' = updates + 1
    /\ user_author_fatigue' =
           updateAuthorFatigueOnInteraction(user_author_fatigue, authorDid,
                                            interactionType)
    /\ UNCHANGED <<taste_reputation, user_keyword, today, keywordJob, serveVars, sideVars, interactVars,
                   ingestVars, feedVars, pipelineVars>>

\* sendInteractions reported a post of the author as seen.
UpdateAffinityOnSeen(authorDid) ==
    /\ updates < MaxUpdates
    /\ updates' = updates + 1
    /\ user_author_fatigue' = updateAffinityOnSeen(user_author_fatigue, authorDid)
    /\ UNCHANGED <<taste_reputation, user_keyword, today, keywordJob, serveVars, sideVars,
                   ingestVars, feedVars, pipelineVars>>

\* The score a keyword keeps of its existing score in the daily merge: the
\* parabolic decay.
KeywordDecayed(existingScore) ==
    LET absScore == IF existingScore < 0 THEN 0 - existingScore ELSE existingScore
        parabolicFactor == 10000 - ((10000 - absScore) * (10000 - absScore)) \div 10000
        decayFactor == 10000 - (300 + (1200 * parabolicFactor) \div 10000)
    IN  (decayFactor * existingScore) \div 10000

\* The scores the keyword extractor can give a keyword.
ExtractedScores == {5000}

\* The daily keywords job reaches a user: it skips a user that has keywords, and
\* fetches the liked posts of one that has none.
DailyKeywordsStart ==
    /\ keywordJob = "idle"
    /\ updates < MaxUpdates
    /\ updates' = updates + 1
    /\ keywordJob' = IF DOMAIN user_keyword # {} THEN "idle" ELSE "extracting"
    /\ UNCHANGED <<user_author_fatigue, taste_reputation, user_keyword, today, serveVars, sideVars, interactVars,
                   ingestVars, feedVars, pipelineVars>>

\* The job merges what the extractor returned into the keywords it finds now;
\* the keywords the extractor did not return decay and are pruned below 0.1.
\* Without liked text or extracted keyword the job leaves the user as it is.
DailyKeywordsMerge(keywordScores) ==
    /\ keywordJob = "extracting"
    /\ keywordJob' = "idle"
    /\ IF DOMAIN keywordScores = {}
       THEN user_keyword' = user_keyword
       ELSE LET existingMap == user_keyword
                merged == [k \in DOMAIN keywordScores |->
                              IF k \in DOMAIN existingMap
                              THEN KeywordDecayed(existingMap[k]) + keywordScores[k]
                              ELSE keywordScores[k]]
                unseen == {k \in DOMAIN existingMap \ DOMAIN keywordScores :
                              LET newScore == KeywordDecayed(existingMap[k])
                              IN  ~(newScore < 1000 /\ newScore > -1000)}
            IN  user_keyword' = merged @@ [k \in unseen |-> KeywordDecayed(existingMap[k])]
    /\ UNCHANGED <<user_author_fatigue, taste_reputation, today, updates, serveVars, sideVars, interactVars,
                   ingestVars, feedVars, pipelineVars>>

\* Days pass.
NextDay ==
    /\ \E d \in {2, 10} :
          /\ today + d <= MaxDay
          /\ today' = today + d
    /\ UNCHANGED <<user_author_fatigue, taste_reputation, user_keyword, updates,
                   keywordJob, serveVars, sideVars, interactVars, ingestVars, feedVars, pipelineVars>>

\* Nothing is learnt yet; the post of the feedback is indexed or not.
LearnInit ==
    /\ OpsIdle
    /\ RetryIdle
    /\ InteractIdle
    /\ GraphIdle
    /\ Configured
    /\ LaterIdle
    /\ FeedIdle
    /\ PipelineIdle
    /\ IngesterIdle
    /\ dbCursor = 0
    /\ graph_interaction \in {<<>>, <<[LikeOf(PostA1) EXCEPT !.actor = LikerX]>>}
    /\ post \in {[u \in {PostA1} |-> NewRow], [u \in {PostA1} |-> NoRow]}

Feedback ==
    \E type \in FeedbackTypes, strength \in Strengths, apiLikers \in PostLikers :
        /\ handleInteractionFeedback(PostA1, type, strength, apiLikers)
        /\ UNCHANGED interactVars

ReputationNext ==
    \/ \E action \in ReputationActions : UpdateTasteReputation(LikerX, action)
    \/ Feedback
    \/ NextDay

SpecReputation == LearnInit /\ [][ReputationNext]_vars

FatigueNext ==
    \/ UpdateAuthorFatigueOnServe(AuthorA)
    \/ \E interactionType \in InteractionTypes :
          UpdateAuthorFatigueOnInteraction(AuthorA, interactionType)
    \/ UpdateAffinityOnSeen(AuthorA) /\ UNCHANGED interactVars
    \/ Feedback
    \/ NextDay

SpecFatigue == LearnInit /\ [][FatigueNext]_vars

KeywordNext ==
    \/ Feedback
    \/ DailyKeywordsStart
    \/ \E keywordScores \in UNION {[S -> ExtractedScores] : S \in SUBSET {"hello", "world"}} :
          DailyKeywordsMerge(keywordScores)

SpecKeyword == LearnInit /\ [][KeywordNext]_vars

(***************************************************************************)
(* Replies: the reply filter and the thread deduplication of the handler.   *)
(***************************************************************************)

\* The thread of root R: four replies, each by another followee of the requester.
RootR == "at://R"

ReplyUris == {"at://r1", "at://r2", "at://r3", "at://r4"}

ReplyAuthor(u) ==
    CASE u = "at://r1" -> "did:l1a"
      [] u = "at://r2" -> "did:l1b"
      [] u = "at://r3" -> "did:l1c"
      [] OTHER -> "did:l1d"

\* The position of a reply in uniquePosts.
ReplyOrder(u) ==
    CASE u = "at://r1" -> 1
      [] u = "at://r2" -> 2
      [] u = "at://r3" -> 3
      [] OTHER -> 4

ThreadScore(u) ==
    CASE u = "at://r1" -> 300
      [] u = "at://r2" -> 900
      [] u = "at://r3" -> 500
      [] OTHER -> 100

\* The rows of graph_follow with the requester as follower.
layer1Dids == {ReplyAuthor(u) : u \in ReplyUris}

LikeCounts == {0, 1, 5}

RepostCounts == {0, 1}

ThreadSeenCounts == {0, 3}

\* replyClusters[RootR] filtered to the social graph: every reply of the thread.
socialGraphRepliesInCluster == {u \in ReplyUris : ReplyAuthor(u) \in layer1Dids}

multiPersonReplies ==
    IF Cardinality(socialGraphRepliesInCluster) >= 2 THEN {RootR} ELSE {}

\* clusterReplies.reduce((max, current) => current.score > max.score ? current : max)
highestScoringReplyLowest ==
    CHOOSE u \in ReplyUris :
        \A v \in ReplyUris \ {u} :
            \/ scoredPosts[v].score > scoredPosts[u].score
            \/ scoredPosts[v].score = scoredPosts[u].score
                   /\ ReplyOrder(u) < ReplyOrder(v)
highestScoringReply ==
    CHOOSE u \in ReplyUris :
        \A v \in ReplyUris \ {u} :
            \/ scoredPosts[v].score < scoredPosts[u].score
            \/ scoredPosts[v].score = scoredPosts[u].score
                   /\ ReplyOrder(u) < ReplyOrder(v)

\* The predicate of scoredPosts.filter for a reply.
ReplyFilter(u) ==
    LET sp == scoredPosts[u]
        isMutual == ReplyAuthor(u) \in mutualDids
        isLayer1 == ReplyAuthor(u) \in layer1Dids
    IN  IF sp.interaction = "like" THEN FALSE
        ELSE IF sp.likeCount = 0 /\ sp.repostCount = 0 /\ sp.seenCount >= 3 THEN FALSE
        ELSE IF isMutual /\ sp.likeCount + sp.repostCount >= 1 THEN sp.score > -200
        ELSE IF isLayer1 /\ sp.likeCount + 2 * sp.repostCount >= 3 THEN sp.score > -150
        ELSE IF RootR \in multiPersonReplies
                /\ Cardinality(socialGraphRepliesInCluster) >= 3
             THEN u = highestScoringReply /\ sp.score > -100
        ELSE IF isLayer1 THEN sp.score > -2000
        ELSE sp.score > -1000

\* filtered.sort((a, b) => b.score - a.score): a stable sort.
RECURSIVE SortByScore(_)
SortByScore(S) ==
    IF S = {} THEN <<>>
    ELSE LET first == CHOOSE a \in S :
                          \A b \in S \ {a} :
                              \/ scoredPosts[a].score > scoredPosts[b].score
                              \/ scoredPosts[a].score = scoredPosts[b].score
                                     /\ ReplyOrder(a) < ReplyOrder(b)
         IN  <<first>> \o SortByScore(S \ {first})

\* The loop over sortedCandidatePool: conversationCount is
\* conversationCounts[RootR] before the head of the pool is counted.
RECURSIVE ThreadDedup(_, _, _)
ThreadDedup(sortedCandidatePool, conversationCount, pool) ==
    IF sortedCandidatePool = <<>> THEN pool
    ELSE LET u == Head(sortedCandidatePool)
             sp == scoredPosts[u]
             count == conversationCount + 1
             isMutual == ReplyAuthor(u) \in mutualDids
             isLayer1 == ReplyAuthor(u) \in layer1Dids
             pushed ==
                 IF isMutual /\ count <= 3 THEN TRUE
                 ELSE IF isLayer1 /\ sp.likeCount + sp.repostCount >= 5 /\ count <= 2
                      THEN TRUE
                 ELSE IF isLayer1 /\ count <= 1 /\ sp.score > 100 THEN TRUE
                 ELSE ~isLayer1 /\ sp.score > 500 /\ count <= 1
         IN  ThreadDedup(Tail(sortedCandidatePool), count,
                         IF pushed THEN Append(pool, u) ELSE pool)

\* The handler in batchMode on the thread: filter, deduplicate, return finalPool.
RankThread ==
    /\ ~rankResult.done
    /\ rankResult' =
           [done |-> TRUE,
            feed |-> ThreadDedup(SortByScore({u \in ReplyUris : ReplyFilter(u)}),
                                 0, <<>>)]
    /\ UNCHANGED <<scoredPosts, mutualDids, whitelist, graphVars, opsVars, interactVars,
                   retryVars>>
    /\ UNCHANGED <<ingestVars, feedVars, pipelineVars, serveVars, learnVars>>

ReplyInit ==
    /\ OpsIdle
    /\ RetryIdle
    /\ InteractIdle
    /\ GraphIdle
    /\ Configured
    /\ IngestIdle
    /\ FeedIdle
    /\ PipelineIdle
    /\ user_candidate_batch = <<>>
    /\ triggerCalls = <<>>
    /\ user_author_fatigue = <<>>
    /\ taste_reputation = <<>>
    /\ user_keyword = <<>>
    /\ today = 0
    /\ updates = 0
    /\ keywordJob = "idle"
    /\ \E likeCount \in [ReplyUris -> LikeCounts],
          repostCount \in [ReplyUris -> RepostCounts],
          liked \in SUBSET {"at://r2"},
          seen \in [{"at://r2"} -> ThreadSeenCounts] :
          scoredPosts =
              [u \in ReplyUris |->
                  [score |-> ThreadScore(u),
                   likeCount |-> likeCount[u],
                   repostCount |-> repostCount[u],
                   interaction |-> IF u \in liked THEN "like" ELSE None,
                   seenCount |-> IF u \in DOMAIN seen THEN seen[u] ELSE 0]]
    /\ mutualDids \in SUBSET layer1Dids
    /\ rankResult = [done |-> FALSE, feed |-> <<>>]

ReplyNext == RankThread

SpecReply == ReplyInit /\ [][ReplyNext]_vars

(***************************************************************************)
(* The social graph of a user (GraphBuilder.buildUserGraph). Every feed     *)
(* request and the server's start call it without waiting for it, so calls  *)
(* for one user overlap. Each await of the method is a step of its own.     *)
(***************************************************************************)
\* What agent.getFollows can return for the user: nothing (or an error, which is
\* caught and leaves follows empty), or one follow.
FollowLists == {<<>>, <<"did:l1a">>}

\* What agent.getFollows returns for the follow.
Layer2Follows == <<"did:l2a">>

\* The row graph_last_update_<did> exists and is less than 24 h old.
FreshEnough == graph_meta # Never /\ graph_meta > hour - 24

\* buildUserGraph(userDid) up to the read of graph_meta: the call returns when the
\* graph is fresh enough, and goes on to fetch otherwise.
BuildUserGraph ==
    /\ Len(builds) < MaxBuilds
    /\ builds' = Append(builds,
                        [pc |-> IF FreshEnough THEN "fresh" ELSE "fetchLayer1",
                         startedAt |-> hour,
                         follows |-> <<>>, fetches |-> 0, writes |-> 0])
    /\ UNCHANGED <<graph_meta, graph_follow, hour, notGraphVars>>

\* The do-while of agent.getFollows({ actor: userDid, cursor }).
FetchLayer1(c, follows) ==
    /\ builds[c].pc = "fetchLayer1"
    /\ builds' = [builds EXCEPT ![c].pc = "storeLayer1",
                                ![c].follows = follows,
                                ![c].fetches = @ + 1]
    /\ UNCHANGED <<graph_meta, graph_follow, hour, notGraphVars>>

\* The inserts of the follows into graph_follow, onConflict doNothing.
StoreLayer1(c) ==
    /\ builds[c].pc = "storeLayer1"
    /\ graph_follow' = graph_follow \cup
                           {<<OwnDid, builds[c].follows[i]>> : i \in DOMAIN builds[c].follows}
    /\ builds' = [builds EXCEPT ![c].pc = "layer2",
                                ![c].writes = @ + Len(builds[c].follows)]
    /\ UNCHANGED <<graph_meta, hour, notGraphVars>>

\* The loop over follows: one getFollows for each, and the inserts of what it
\* returns; a fetch that fails is logged and inserts nothing.
FetchLayer2(c, ok) ==
    /\ builds[c].pc = "layer2"
    /\ LET fetched == IF ok THEN Layer2Follows ELSE <<>>
           rows == {<<builds[c].follows[i], fetched[j]>> :
                        i \in DOMAIN builds[c].follows, j \in DOMAIN fetched}
       IN  /\ graph_follow' = graph_follow \cup rows
           /\ builds' = [builds EXCEPT ![c].pc = "updateMeta",
                                       ![c].fetches = @ + Len(builds[c].follows),
                                       ![c].writes = @ + Cardinality(rows)]
    /\ UNCHANGED <<graph_meta, hour, notGraphVars>>

\* The upsert of graph_last_update_<did> that ends the build.
UpdateMeta(c) ==
    /\ builds[c].pc = "updateMeta"
    /\ graph_meta' = hour
    /\ builds' = [builds EXCEPT ![c].pc = "done", ![c].writes = @ + 1]
    /\ UNCHANGED <<graph_follow, hour, notGraphVars>>

\* Time passes: a little less than a day, or a day.
HourPasses ==
    /\ \E h \in {23, 24} :
          /\ hour + h <= MaxHour
          /\ hour' = hour + h
    /\ UNCHANGED <<graph_meta, graph_follow, builds, notGraphVars>>

GraphInit ==
    /\ OpsIdle
    /\ RetryIdle
    /\ InteractIdle
    /\ GraphIdle
    /\ IngestIdle
    /\ FeedIdle
    /\ PipelineIdle
    /\ LaterIdle
    /\ Configured

GraphNext ==
    \/ BuildUserGraph
    \/ \E c \in DOMAIN builds, follows \in FollowLists : FetchLayer1(c, follows)
    \/ \E c \in DOMAIN builds : StoreLayer1(c)
    \/ \E c \in DOMAIN builds, ok \in BOOLEAN : FetchLayer2(c, ok)
    \/ \E c \in DOMAIN builds : UpdateMeta(c)
    \/ HourPasses

SpecGraph == GraphInit /\ [][GraphNext]_vars

(***************************************************************************)
(* The shutdown of the ingester (JetstreamSubscription.stop). The store is  *)
(* available: no transaction and no cursor write fails.                     *)
(***************************************************************************)
\* stop() up to the await of flushBatch(): the timer is cleared; flushBatch
\* returns at once when a flush is under way or nothing is pending, and stop goes
\* on to remove the listeners and terminate the socket.
StopBegin ==
    /\ stopPc = "running"
    /\ stopPos' = pos
    /\ IF isFlushing \/ pending = EmptyBatch
       THEN /\ stopPc' = "stopped"
            /\ sub' = "closed"
            /\ UNCHANGED <<pending, flushVars>>
       ELSE /\ stopPc' = "flushing"
            /\ isFlushing' = TRUE
            /\ toFlush' = pending
            /\ pending' = EmptyBatch
            /\ flushPc' = "tx"
            /\ sub' = sub
    /\ UNCHANGED <<stream, pos, awaiting, cursor, dbVars, trackedInteractionDids,
                   faults, script, connStart, flushStartPos, cleanCrash>>
    /\ UNCHANGED <<feedVars, pipelineVars, serveVars, learnVars, replyVars, whitelist,
                   graphVars, interactVars, retryVars>>

\* stop() after its flushBatch() has returned: the listeners are removed and the
\* socket is terminated.
StopEnd ==
    /\ stopPc = "flushing"
    /\ ~isFlushing
    /\ stopPc' = "stopped"
    /\ sub' = "closed"
    /\ UNCHANGED <<stream, pos, awaiting, cursor, pending, flushVars, dbVars,
                   trackedInteractionDids, faults, script, connStart, flushStartPos,
                   cleanCrash, stopPos>>
    /\ UNCHANGED <<feedVars, pipelineVars, serveVars, learnVars, replyVars, whitelist,
                   graphVars, interactVars, retryVars>>

\* The ingester up to and through a stop(): the timer starts flushes until it is
\* cleared, messages are handled until the listeners are removed, and a flush
\* that has started runs to its end.
StopNext ==
    \/ stopPc = "running" /\ Run
    \/ stopPc # "stopped" /\ Deliver
    \/ HandleEventResume
    \/ stopPc = "running" /\ FlushStart
    \/ FlushCommit
    \/ UpdateCursor
    \/ StopBegin
    \/ StopEnd

SpecStop == IngestInit /\ [][StopNext]_vars

(***************************************************************************)
(* The interaction reports of the client (sendInteractions). The store is   *)
(* available: no insert and no update fails.                                *)
(***************************************************************************)
\* The sendInteractions requests of a run.
MaxSends == 2

\* The events of app.bsky.feed.defs the handler looks for.
InteractionEvents ==
    {"interactionSeen", "interactionLike", "interactionDislike", "requestLess",
     "requestMore"}

\* Bodies of at most two interactions, all about PostA1.
InteractionBodies ==
    UNION {[1..n -> [event : InteractionEvents, item : {PostA1}]] : n \in 0..2}

\* interactions.filter(event === interactionSeen && item).
seenRecords(interactions) ==
    SelectSeq(interactions, LAMBDA interaction : interaction.event = "interactionSeen")

\* interactions.filter(the four events of explicit feedback).
feedbackInteractions(interactions) ==
    SelectSeq(interactions,
              LAMBDA interaction :
                  interaction.event \in {"interactionLike", "interactionDislike",
                                         "requestLess", "requestMore"})

\* The handler up to its response: with seen records it inserts them and starts
\* processBackgroundInteractions without awaiting it; without seen records it
\* does nothing.
SendInteractions(interactions) ==
    /\ sends < MaxSends
    /\ sends' = sends + 1
    /\ feedbackEntries' = feedbackEntries \o feedbackInteractions(interactions)
    /\ IF Len(interactions) > 0 /\ Len(seenRecords(interactions)) > 0
       THEN /\ user_seen_post' =
                   [user_seen_post EXCEPT
                       ![PostA1] = @ + Len(seenRecords(interactions))]
            /\ backgroundTasks' =
                   Append(backgroundTasks,
                          [seenRecords |-> seenRecords(interactions),
                           feedbackInteractions |->
                               feedbackInteractions(interactions)])
       ELSE UNCHANGED <<user_seen_post, backgroundTasks>>
    /\ UNCHANGED <<feedbackCalls, candidates, user_served_post, servedInserts,
                   response, requests>>
    /\ UNCHANGED <<ingestVars, pipelineVars, serveVars, learnVars, sideVars>>

\* Task k of the background after one more of its calls: it ends with its last
\* call.
BackgroundAfter(k, task) ==
    IF task.seenRecords = <<>> /\ task.feedbackInteractions = <<>>
    THEN RemoveAt(backgroundTasks, k)
    ELSE [backgroundTasks EXCEPT ![k] = task]

\* processBackgroundInteractions, one seen record: updateAffinityOnSeen.
BackgroundSeen(k) ==
    /\ k \in 1..Len(backgroundTasks)
    /\ backgroundTasks[k].seenRecords # <<>>
    /\ UpdateAffinityOnSeen(Author(Head(backgroundTasks[k].seenRecords).item))
    /\ backgroundTasks' =
           BackgroundAfter(k, [backgroundTasks[k] EXCEPT !.seenRecords = Tail(@)])
    /\ UNCHANGED <<sends, feedbackEntries, feedbackCalls>>

\* processBackgroundInteractions, one feedback interaction, after the seen
\* records: handleInteractionFeedback.
BackgroundFeedback(k, apiLikers) ==
    /\ k \in 1..Len(backgroundTasks)
    /\ backgroundTasks[k].seenRecords = <<>>
    /\ backgroundTasks[k].feedbackInteractions # <<>>
    /\ LET interaction == Head(backgroundTasks[k].feedbackInteractions)
           isPositive == interaction.event \in {"interactionLike", "requestMore"}
           strength == IF interaction.event \in {"requestLess", "requestMore"}
                       THEN "strong" ELSE "weak"
       IN  /\ handleInteractionFeedback(interaction.item,
                                        IF isPositive THEN "more" ELSE "less",
                                        strength, apiLikers)
           /\ feedbackCalls' = Append(feedbackCalls, interaction)
    /\ backgroundTasks' =
           BackgroundAfter(k, [backgroundTasks[k] EXCEPT
                                  !.feedbackInteractions = Tail(@)])
    /\ UNCHANGED <<sends, feedbackEntries>>

\* Nothing was reported; PostA1 is indexed or not, liked by LikerX or not.
InteractInit ==
    /\ OpsIdle
    /\ RetryIdle
    /\ InteractIdle
    /\ GraphIdle
    /\ Configured
    /\ LaterIdle
    /\ PipelineIdle
    /\ IngesterIdle
    /\ dbCursor = 0
    /\ graph_interaction \in {<<>>, <<[LikeOf(PostA1) EXCEPT !.actor = LikerX]>>}
    /\ post \in {[u \in {PostA1} |-> NewRow], [u \in {PostA1} |-> NoRow]}
    /\ candidates = <<>>
    /\ user_seen_post = [u \in FeedUris |-> 0]
    /\ user_served_post = <<>>
    /\ servedInserts = <<>>
    /\ response = NoResponse
    /\ requests = 0

InteractNext ==
    \/ \E interactions \in InteractionBodies : SendInteractions(interactions)
    \/ \E k \in 1..MaxSends : BackgroundSeen(k)
    \/ \E k \in 1..MaxSends, apiLikers \in PostLikers : BackgroundFeedback(k, apiLikers)

SpecInteract == InteractInit /\ [][InteractNext]_vars

(***************************************************************************)
(* Store contention (SQLITE_BUSY). The ingester is shown under a lock that  *)
(* outlasts its flushes; an attempt of the pipeline finds the store locked  *)
(* or free.                                                                 *)
(***************************************************************************)
\* The flushes in a row that meet the lock.
MaxBusy == 5

\* A whole flushBatch call whose transaction throws SQLITE_BUSY: the snapshot is
\* taken, the catch block puts it back into the pending batches, the finally
\* block clears isFlushing. The call tries the transaction once and returns; the
\* next call is the next tick of the 5 s interval.
FlushBatchBusy ==
    /\ ~isFlushing
    /\ pending # EmptyBatch
    /\ flushErrors.busy < MaxBusy
    /\ pending' = Requeue(EmptyBatch, pending)
    /\ flushErrors' = [flushErrors EXCEPT !.busy = @ + 1]
    /\ UNCHANGED <<stream, sub, pos, awaiting, cursor, flushVars, dbVars,
                   trackedInteractionDids, faults, script, connStart, flushStartPos,
                   cleanCrash>>
    /\ UNCHANGED <<feedVars, pipelineVars, serveVars, learnVars, replyVars, whitelist,
                   graphVars, opsVars, interactVars, insertCall>>

\* The frame of the steps of the insert loop.
InsertFrame ==
    UNCHANGED <<ingestVars, feedVars, pipelineVars, serveVars, learnVars, replyVars,
                whitelist, graphVars, opsVars, interactVars, flushErrors>>

\* Step 5 of the pipeline reaches a chunk of candidates: let retries = 3.
InsertBatch ==
    /\ insertCall.pc \in {"idle", "stored", "thrown"}
    /\ insertCall' = [pc |-> "trying", retries |-> 3, attempts |-> 0, sleeps |-> 0]
    /\ InsertFrame

\* The insert succeeds: break.
InsertOk ==
    /\ insertCall.pc = "trying"
    /\ insertCall' = [insertCall EXCEPT !.pc = "stored", !.attempts = @ + 1]
    /\ InsertFrame

\* The insert throws: on SQLITE_BUSY with retries > 1 the loop sleeps 1 s, else
\* the error is thrown to the catch block of the user, which logs it.
InsertFail(code) ==
    /\ insertCall.pc = "trying"
    /\ insertCall' =
           [insertCall EXCEPT
               !.pc = IF code = "SQLITE_BUSY" /\ insertCall.retries > 1
                      THEN "sleeping" ELSE "thrown",
               !.attempts = @ + 1]
    /\ InsertFrame

\* setTimeout(resolve, 1000) fires: retries--, and the loop tries again.
InsertWake ==
    /\ insertCall.pc = "sleeping"
    /\ insertCall' = [insertCall EXCEPT !.pc = "trying", !.retries = @ - 1,
                                        !.sleeps = @ + 1]
    /\ InsertFrame

ContentionNext ==
    \/ Run
    \/ Deliver
    \/ HandleEventResume
    \/ FlushBatchBusy
    \/ InsertBatch
    \/ InsertOk
    \/ \E code \in {"SQLITE_BUSY", "SQLITE_CONSTRAINT"} : InsertFail(code)
    \/ InsertWake

SpecContention == IngestInit /\ [][ContentionNext]_vars

(***************************************************************************)
(* The retention sweeps of the table post: cleanupPosts of the feed server  *)
(* and cleanupDatabase of the ingester process. Time is in days.            *)
(***************************************************************************)
\* The author column of the rows of P1 and P2.
PostAuthor(u) == IF u = P1 THEN OtherDid ELSE OwnDid

\* The day the rows were indexed.
PostIndexedAt(u) == IF u = P1 THEN 0 ELSE 4

\* deleteFrom('post') where indexedAt < now - days, likeCount = 0 and
\* repostCount = 0, and, when the sweep asks for it, author not in (select
\* followee from graph_follow).
SweepPosts(tbl, days, unfollowedOnly) ==
    [u \in DOMAIN tbl |->
        IF /\ tbl[u].exists
           /\ PostIndexedAt(u) < today - days
           /\ tbl[u].likeCount = 0
           /\ tbl[u].repostCount = 0
           /\ (unfollowedOnly =>
                  PostAuthor(u) \notin {follow[2] : follow \in graph_follow})
        THEN NoRow
        ELSE tbl[u]]

\* FeedGenerator.cleanupPosts, at the start of the server and every hour: posts
\* older than 7 days. The served and the seen log are empty here.
cleanupPosts ==
    /\ post' = SweepPosts(post, 7, TRUE)
    /\ UNCHANGED <<stream, sub, pos, awaiting, cursor, pending, flushVars,
                   graph_interaction, dbCursor, trackedInteractionDids, faults, script,
                   connStart, flushStartPos, cleanCrash>>
    /\ UNCHANGED <<feedVars, pipelineVars, laterVars>>

\* cleanupDatabase of the ingester process, 5 s after its start and every 30
\* minutes: posts older than 3 days, whoever wrote them.
cleanupDatabase ==
    /\ post' = SweepPosts(post, 3, FALSE)
    /\ UNCHANGED <<stream, sub, pos, awaiting, cursor, pending, flushVars,
                   graph_interaction, dbCursor, trackedInteractionDids, faults, script,
                   connStart, flushStartPos, cleanCrash>>
    /\ UNCHANGED <<feedVars, pipelineVars, laterVars>>

\* Two indexed posts with or without likes, reposts and replies; the user follows
\* the author of P1 or nobody.
GcInit ==
    /\ OpsIdle
    /\ RetryIdle
    /\ InteractIdle
    /\ Configured
    /\ LaterIdle
    /\ FeedIdle
    /\ PipelineIdle
    /\ IngesterIdle
    /\ dbCursor = 0
    /\ graph_interaction = <<>>
    /\ post \in [PostUris -> {[NewRow EXCEPT !.likeCount = l, !.repostCount = r,
                                           !.replyCount = c] :
                                 l \in {0, 1}, r \in {0, 1}, c \in {0, 1}}]
    /\ graph_meta = Never
    /\ graph_follow \in {{}, {<<OwnDid, OtherDid>>}}
    /\ builds = <<>>
    /\ hour = 0

GcNext ==
    \/ cleanupPosts
    \/ cleanupDatabase
    \/ NextDay

SpecGc == GcInit /\ [][GcNext]_vars

(***************************************************************************)
(* The intersplice when the live pipeline ranks posts that are also in the  *)
(* batches of the requester.                                                *)
(***************************************************************************)
\* The snapshots of such requests: batch rows for PostA1 and PostB1 or one of
\* them, seen or not, and live candidates among PostA1 and PostA3.
SpliceInit ==
    /\ OpsIdle
    /\ RetryIdle
    /\ InteractIdle
    /\ GraphIdle
    /\ Configured
    /\ ReplyIdle
    /\ user_candidate_batch \in
           UNION {[S -> BatchRows] : S \in SUBSET {PostA1, PostB1} \ {{}}}
    /\ user_seen_post \in {f \in [FeedUris -> SeenCounts] :
                              \A u \in FeedUris \ DOMAIN user_candidate_batch : f[u] = 0}
    /\ graph_interaction \in {<<>>, <<LikeOf(PostA1)>>}
    /\ user_author_fatigue = <<>>
    /\ taste_reputation = <<>>
    /\ user_keyword = <<>>
    /\ today = 0
    /\ updates = 0
    /\ keywordJob = "idle"
    /\ candidates \in UNION {[S -> {[base |-> 90, likeCount |-> 0, repostCount |-> 0]}] :
                                S \in SUBSET {PostA1, PostA3}}
    /\ triggerCalls = <<>>
    /\ user_served_post = [u \in FeedUris |-> 0]
    /\ servedInserts = <<>>
    /\ response = NoResponse
    /\ requests = 0
    /\ post = [u \in PostUris |-> NoRow]
    /\ dbCursor = 0
    /\ IngesterIdle
    /\ PipelineIdle

SpliceNext ==
    \E limit \in Limits, reqCursor \in {NoCursor, response.cursor} :
        ServeFromBatches(limit, reqCursor)

SpecSplice == SpliceInit /\ [][SpliceNext]_vars

(***************************************************************************)
(* The claims.                                                              *)
(***************************************************************************)

\* C1: the cursor persisted in sub_state never decreases: every value written to
\* it is greater than or equal to the value stored before.
CursorNeverDecreases == [][dbCursor' >= dbCursor]_vars

\* C2: the stored cursor is written only after the flush transaction has
\* committed: it changes only in a step of a flush whose transaction committed.
CursorWrittenOnlyAfterCommit == [][dbCursor' # dbCursor => flushPc = "committed"]_vars

\* A cursor has been written by a flush that committed and ended.
CursorWrittenAfterCommit == dbCursor # 0 /\ flushPc = "idle" /\ ~isFlushing

\* C3: when a flush fails, in its transaction or in the cursor write after it,
\* every mutation taken for that flush is back in the pending batches beside what
\* arrived meanwhile (post inserts, post deletes, like / repost / reply deltas,
\* interaction edges), and the stored cursor and the tables are as before the
\* failure.
FailedFlushRequeuesAll ==
    [][(\/ faults'["tx"] = faults["tx"] + 1
        \/ faults'["cursor"] = faults["cursor"] + 1) =>
         /\ \A u \in PostUris :
               /\ pending'.likes[u] = pending.likes[u] + toFlush.likes[u]
               /\ pending'.reposts[u] = pending.reposts[u] + toFlush.reposts[u]
               /\ pending'.replyCounts[u] =
                      pending.replyCounts[u] + toFlush.replyCounts[u]
         /\ pending'.deletes = pending.deletes \cup toFlush.deletes
         /\ Len(pending'.posts) = Len(pending.posts) + Len(toFlush.posts)
         /\ \A i \in DOMAIN toFlush.posts :
               Occurrences(pending'.posts, toFlush.posts[i]) =
                   Occurrences(pending.posts, toFlush.posts[i])
                   + Occurrences(toFlush.posts, toFlush.posts[i])
         /\ Len(pending'.interactions) =
                Len(pending.interactions) + Len(toFlush.interactions)
         /\ \A i \in DOMAIN toFlush.interactions :
               Occurrences(pending'.interactions, toFlush.interactions[i]) =
                   Occurrences(pending.interactions, toFlush.interactions[i])
                   + Occurrences(toFlush.interactions, toFlush.interactions[i])
         /\ dbCursor' = dbCursor
         /\ post' = post
         /\ graph_interaction' = graph_interaction]_vars

\* A flush transaction has failed with a like delta taken, and the delta is pending.
FailedFlushHappened ==
    /\ faults["tx"] > 0
    /\ flushPc = "idle"
    /\ pending.likes[P1] > 0

InteractionRowsUnique ==
    \A i, j \in DOMAIN graph_interaction :
        InteractionKey(graph_interaction[i]) = InteractionKey(graph_interaction[j])
            => i = j

\* A flush has committed more interaction rows than the table holds: the same
\* like or repost was ingested more than once and the repeats were absorbed.
RepeatedInteractionCommitted ==
    /\ flushPc = "committed"
    /\ Len(toFlush.interactions) > Len(graph_interaction)
    /\ Len(graph_interaction) > 0

\* C6: a post the requester has a like row for is in no rank response for the
\* requester, whatever its score and whatever other rows the requester has on it.
LikedNeverRanked ==
    \A i \in DOMAIN response.feed :
        \A k \in DOMAIN graph_interaction :
            ~(/\ graph_interaction[k].actor = OwnDid
              /\ graph_interaction[k].type = "like"
              /\ graph_interaction[k].target = response.feed[i])

\* C7: on one snapshot, the page for (limit, no cursor) and the page for (limit,
\* the cursor the first returned) are disjoint, and the first followed by the
\* second is the page for (2 * limit, no cursor).
PaginationStable ==
    [][(/\ requests' = requests + 1
        /\ response.status = "ok"
        /\ response'.status = "ok"
        /\ response.cursorIn = NoCursor
        /\ response.cursor # NoCursor
        /\ response'.cursorIn = response.cursor
        /\ response'.limit = response.limit
        /\ response'.read = response.read) =>
           /\ \A i \in DOMAIN response.feed : \A j \in DOMAIN response'.feed :
                 response.feed[i] # response'.feed[j]
           /\ response.feed \o response'.feed =
                 handler([limit |-> 2 * response.limit, cursor |-> NoCursor],
                         response.read).feed]_vars

\* C8 as stated: every URI of a feed response is in the served log of the
\* requester when the request has been handled.
ServedWithinRequest ==
    response.status = "ok" =>
        \A i \in DOMAIN response.feed : user_served_post[response.feed[i]] > 0

\* C8 amended: a request that returns URIs starts, before it returns, one insert of
\* exactly these URIs into the served log of the requester and does not wait for
\* it; rows come into the served log only when such an insert completes, all the
\* URIs of the insert at once.
ServedInsertStartedWithinRequest ==
    [][/\ (requests' = requests + 1 /\ response'.feed # <<>>) =>
             /\ servedInserts' = Append(servedInserts, response'.feed)
             /\ user_served_post' = user_served_post
       /\ user_served_post' # user_served_post =>
             \E i \in DOMAIN servedInserts :
                 /\ user_served_post' = AddServed(user_served_post, servedInserts[i])
                 /\ servedInserts' = RemoveAt(servedInserts, i)]_vars

\* The insert of the last response has completed: its URIs are in the served log.
ServedInsertCompleted ==
    /\ response.status = "ok"
    /\ response.feed # <<>>
    /\ servedInserts = <<>>
    /\ \A i \in DOMAIN response.feed : user_served_post[response.feed[i]] > 0

\* Number of items of the page that this author wrote.
ByAuthor(feed, author) == Cardinality({i \in DOMAIN feed : Author(feed[i]) = author})

\* Whether the items of the page, written by AuthorA and AuthorB, have an order in
\* which no three consecutive ones have the same author.
Arrangeable(feed) ==
    /\ ByAuthor(feed, AuthorA) <= 2 * (ByAuthor(feed, AuthorB) + 1)
    /\ ByAuthor(feed, AuthorB) <= 2 * (ByAuthor(feed, AuthorA) + 1)

\* C9: in a returned page no three consecutive items have the same author; stated
\* for the pages whose items have such an order.
NoThreeConsecutiveByAuthor ==
    Arrangeable(response.feed) =>
        \A i \in DOMAIN response.feed :
            i + 2 <= Len(response.feed) =>
                ~(/\ Author(response.feed[i]) = Author(response.feed[i + 1])
                  /\ Author(response.feed[i + 1]) = Author(response.feed[i + 2]))

\* C10: at most one batch pipeline run is in progress in the server process, and
\* a trigger, scheduled or priority, that arrives while a run is in progress
\* starts no run.
SinglePipelineRun ==
    /\ [](RunningChildren <= 1)
    /\ [][RunningChildren > 0 => Len(children') = Len(children)]_vars

\* A trigger arrived while a run was in progress and was skipped.
TriggerSkippedWhileRunning ==
    /\ RunningChildren = 1
    /\ lastTrigger = "already running"

\* C11: a feed request that finds at least half of the requester's unique batch
\* candidates in the seen log calls the batch-regenerate trigger with
\* forcePriority = true.
TriggerWhenHalfConsumed ==
    [][(requests' = requests + 1 /\ HalfConsumed) =>
           triggerCalls' = Append(triggerCalls, TRUE)]_vars

\* C12: the reputationScore of every taste_reputation row is between 0.001 and 5.0
\* after any sequence of updateTasteReputation calls, whatever the actions and the
\* time between them.
ReputationInBounds ==
    \A did \in DOMAIN taste_reputation :
        /\ taste_reputation[did].reputationScore >= 100
        /\ taste_reputation[did].reputationScore <= 500000

\* C13: the fatigueScore of every user_author_fatigue row is between -100 and 100
\* and its affinityScore between 0.1 and 10, after any sequence of serve,
\* interaction and seen updates and of explicit feedback.
FatigueAndAffinityInBounds ==
    \A authorDid \in DOMAIN user_author_fatigue :
        /\ user_author_fatigue[authorDid].fatigueScore >= -10000
        /\ user_author_fatigue[authorDid].fatigueScore <= 10000
        /\ user_author_fatigue[authorDid].affinityScore >= 10
        /\ user_author_fatigue[authorDid].affinityScore <= 1000

\* C14: the score of every user_keyword row is between -1.0 and 1.0 after any
\* sequence of keyword adjustments by explicit feedback and of daily merges.
KeywordScoreInBounds ==
    \A keyword \in DOMAIN user_keyword :
        user_keyword[keyword] >= -10000 /\ user_keyword[keyword] <= 10000

\* C15: outside batchMode and with no new engagement, the score a ranked post gets
\* with one seen row more is strictly less than the score it gets now.
SeenFatigueMonotone ==
    response.status = "ok" =>
        \A u \in DOMAIN candidates :
            ScoreSeen(u, UserInteractionMap(response.read), user_seen_post[u] + 1)
                < ScoreSeen(u, UserInteractionMap(response.read), user_seen_post[u])

NoPopularOrMutualSibling ==
    /\ scoredPosts["at://r2"].interaction # "like"
    /\ ~(/\ scoredPosts["at://r2"].likeCount = 0
         /\ scoredPosts["at://r2"].repostCount = 0
         /\ scoredPosts["at://r2"].seenCount >= 3)
    /\ \A u \in ReplyUris \ {"at://r2"} :
          /\ ReplyAuthor(u) \notin mutualDids
          /\ scoredPosts[u].likeCount + scoredPosts[u].repostCount < 5

RequestLess == handleInteractionFeedback(PostA1, "less", "strong", <<LikerX, LikerY>>)

AuthorizationFailsFast ==
    [][\A feed \in Algos \cup {"unknown"}, requesterDid \in {OwnDid, OtherDid},
          limit \in Limits, reqCursor \in {NoCursor, response.cursor} :
          (/\ feed \notin Algos \/ requesterDid \notin whitelist
           /\ GetFeedSkeleton(feed, requesterDid, limit, reqCursor))
          => /\ response'.status = IF feed \notin Algos THEN "UnsupportedAlgorithm"
                                   ELSE "AccountRestricted"
             /\ response'.feed = <<>>
             /\ servedInserts' = servedInserts]_vars

\* C18 as the code has it: the whitelist restricts the feed only when it is not
\* empty.
AuthorizationFailsFastWhenListed ==
    [][\A feed \in Algos \cup {"unknown"}, requesterDid \in {OwnDid, OtherDid},
          limit \in Limits, reqCursor \in {NoCursor, response.cursor} :
          (/\ feed \notin Algos \/ (whitelist # {} /\ requesterDid \notin whitelist)
           /\ GetFeedSkeleton(feed, requesterDid, limit, reqCursor))
          => /\ response'.status = IF feed \notin Algos THEN "UnsupportedAlgorithm"
                                   ELSE "AccountRestricted"
             /\ response'.feed = <<>>
             /\ servedInserts' = servedInserts]_vars

\* A request was rejected as restricted while there were candidates to rank.
RestrictedWithCandidates ==
    /\ response.status = "AccountRestricted"
    /\ response.feed = <<>>
    /\ whitelist = Whitelist
    /\ DOMAIN candidates # {}
    /\ servedInserts = <<>>

\* C19: buildUserGraph builds the graph of a user at most once per 24 h: a call
\* made within 24 h of a build for the user, the build being finished or still in
\* progress, fetches nothing and writes nothing.
BuildAtMostOncePerDay ==
    \A c \in DOMAIN builds, d \in DOMAIN builds :
        (/\ d < c
         /\ builds[d].pc # "fresh"
         /\ builds[c].startedAt < builds[d].startedAt + 24)
        => builds[c].fetches = 0 /\ builds[c].writes = 0

\* C20: ingesting a post.create event with reply.parent set whose actor is in
\* trackedInteractionDids enqueues an interaction edge (actor, reply.parent,
\* type reply), besides the post and the increment of the parent's replyCount.
ReplyOfTrackedActorEnqueuesEdge ==
    [][(/\ Deliver
        /\ stream'[pos] = EvReplyP2
        /\ EvReplyP2.did \in trackedInteractionDids)
       => /\ \E i \in DOMAIN pending'.posts : pending'.posts[i].uri = EvReplyP2.uri
          /\ pending'.replyCounts[EvReplyP2.replyParent]
                 = pending.replyCounts[EvReplyP2.replyParent] + 1
          /\ \E i \in DOMAIN pending'.interactions :
                /\ pending'.interactions[i].actor = EvReplyP2.did
                /\ pending'.interactions[i].target = EvReplyP2.replyParent
                /\ pending'.interactions[i].type = "reply"]_vars

\* C21: when the upstream connection closes or errors, the batches pending at
\* that moment are flushed to the store before the reconnect is made: run()
\* connects with nothing pending and no flush under way.
FlushedBeforeReconnect ==
    [][(sub = "closed" /\ sub' = "open")
       => (pending = EmptyBatch /\ ~isFlushing)]_vars

\* C22: when stop() has completed and every flush has ended, with the store
\* available, no mutation of an event handled before stop() was called is left in
\* the pending batches.
StopFlushesAll ==
    (stopPc = "stopped" /\ ~isFlushing /\ pos = stopPos) => pending = EmptyBatch

\* C23: every interactionLike, requestMore, interactionDislike or requestLess
\* entry of a sendInteractions request is passed to handleInteractionFeedback,
\* whether or not the request also has interactionSeen entries: once no
\* background processing remains, the calls are the entries received.
FeedbackEntriesPassed ==
    backgroundTasks = <<>> =>
        \A e \in InteractionEvents :
            Cardinality({i \in DOMAIN feedbackCalls : feedbackCalls[i].event = e})
                = Cardinality({i \in DOMAIN feedbackEntries :
                                  feedbackEntries[i].event = e})

\* C24: on store contention the ingester flush and the batch insert of the
\* pipeline each retry up to 3 times and then give the write up: the pipeline
\* throws a busy insert only after its retries, with a 1 s sleep before each
\* retry and never more than 3 retries, and the ingester does not try the same
\* mutations again after the first try and 3 retries have met the lock.
ContentionRetriesBounded ==
    /\ insertCall.sleeps <= 3
    /\ insertCall.attempts <= insertCall.sleeps + 1
    /\ flushErrors.busy <= 4

\* C25: the retention sweeps delete a post only if it is older than 7 days, has
\* no like and no repost, and its author is followed by nobody: a row that
\* leaves the table in a step satisfied the three conditions before the step.
GcDeletesOnlyOldUnengagedUnfollowed ==
    [][\A u \in PostUris :
          (post[u].exists /\ ~post'[u].exists) =>
              /\ today - PostIndexedAt(u) > 7
              /\ post[u].likeCount = 0
              /\ post[u].repostCount = 0
              /\ PostAuthor(u) \notin {follow[2] : follow \in graph_follow}]_vars

\* C26: every event whose time is at most the persisted cursor has its mutations
\* committed; an event handled during a flush transaction never has its time
\* persisted by that flush while its mutations are only pending. Stated at the
\* moments of a run without fault when the persisted cursor is the time of the
\* last event handled: every handled event is covered, so nothing is pending.
CursorCoversOnlyCommitted ==
    ((\A k \in FaultKinds : faults[k] = 0)
        /\ dbCursor # 0 /\ dbCursor = cursor /\ awaiting = {})
        => pending = EmptyBatch

\* C27: the mutations of a flush whose transaction has committed are never put
\* back into the pending batches, also when the cursor write after the commit
\* fails: the step that ends a committed flush in a running process leaves the
\* pending batches as they are.
CommittedNeverRequeued ==
    [][(flushPc = "committed" /\ flushPc' = "idle"
            /\ faults'["crash"] = faults["crash"]) => pending' = pending]_vars

\* C28: on a fixed state, the page for the cursor that the previous serve-time
\* response returned has none of the URIs of the previous page, also when live
\* items are interspliced into a thin batch or a request falls back to the live
\* pipeline.
ServePagesDisjoint ==
    [][(/\ requests' = requests + 1
        /\ response.status = "ok"
        /\ response'.status = "ok"
        /\ response.cursor # NoCursor
        /\ response'.cursorIn = response.cursor) =>
           \A i \in DOMAIN response.feed : \A j \in DOMAIN response'.feed :
               response.feed[i] # response'.feed[j]]_vars

\* C29: no URI is more than once in one feed response, also when live items are
\* interspliced with the batch candidates.
NoUriTwiceInResponse ==
    \A i, j \in DOMAIN response.feed : response.feed[i] = response.feed[j] => i = j

\* C30: after every started batch pipeline run, however it ends (exit with code
\* 0 or another code, spawn failure, exception of spawn), the flag
\* isPipelineRunning is cleared in the end, and a trigger that then comes with
\* priority or outside the cooldown starts a new run.
PipelineFlagCleared ==
    /\ isPipelineRunning ~> ~isPipelineRunning
    /\ [][\A forcePriority \in BOOLEAN :
             (/\ ~isPipelineRunning
              /\ forcePriority \/ now - lastPipelineRunAt >= CooldownMinutes
              /\ RunBatchPipeline(forcePriority)) =>
                 /\ lastTrigger' = "started"
                 /\ Len(children') = Len(children) + 1]_vars

\* Runs have ended in each of the ways, the flag is clear, and a run was started
\* after another had ended.
RunsEndedEveryWay ==
    /\ ~isPipelineRunning
    /\ \E i, j, k \in DOMAIN children :
          /\ children[i] = "exited"
          /\ children[j] = "errored"
          /\ children[k] = "threw"

====
